---- MODULE Spec2Model ----
(***************************************************************************)
(* Cycle detection and coverage validation (Universal-Market-Cycles).      *)
(*                                                                         *)
(*   code/compute_match_psd.py   PSD extractor (module-level script)       *)
(*   code/compute_match_pacf.py  PACF extractor (main)                     *)
(*   code/CAR.py                 Coverage Acceptance Ratio (calculate_car) *)
(*                                                                         *)
(* The specifications of the module:                                       *)
(*   SpecMatch   find_closest_cycle applied to bounded inputs              *)
(*   SpecCAR     calculate_car applied to bounded batches and tables       *)
(*   SpecMain    a run of CAR.py from its argument parser                  *)
(*   SpecSelect  the selection of the cycles from an estimator's output    *)
(*   Spec        one run of an extractor over its instrument list          *)
(*   SpecBatch   a run of CAR.py beside a run of an extractor              *)
(*   SpecShared  two runs of an extractor that share the processing log    *)
(***************************************************************************)
EXTENDS Integers, Sequences, FiniteSets, TLC

VARIABLES
    \* find_closest_cycle: which copy is called, its arguments, its return value
    m_pc, m_copy, m_period, m_table, m_out,
    \* calculate_car: the caller's DataFrame, the module's table, the argument
    \* tolerance, the locals the function computes and what it returns
    car_pc, results_df, car_table, car_tolerance, car_locals, car_out, car_prev,
    \* an extractor run: the script (psd or pacf) and sys.argv[1], where the run
    \* is, the files it creates and reads, its instrument list, its counter
    \* and the locals of the loop body
    extractor, argv, pc, asset_class, out_dir, log_file, results_file, metadata_file,
    instruments, processed_count, cur,
    \* the selection of the cycles from what an estimator gave: whether it has
    \* run, its input and its result
    s_pc, s_in, s_out,
    \* what else works on the output directory of the run: whether the result
    \* files of the other four asset classes are there, and where a run of the
    \* same extractor for another asset class is
    other_results, peer_pc

matchVars == <<m_pc, m_copy, m_period, m_table, m_out>>
carVars == <<car_pc, results_df, car_table, car_tolerance, car_locals, car_out, car_prev>>
runVars == <<extractor, argv, pc, asset_class, out_dir, log_file, results_file,
             metadata_file, instruments, processed_count, cur>>
selVars == <<s_pc, s_in, s_out>>
envVars == <<other_results, peer_pc>>
vars == <<matchVars, carVars, runVars, selVars, envVars>>

(***************************************************************************)
(* Bounds of the model.                                                    *)
(***************************************************************************)
MaxTableLen == 2
MaxRows == 2
MaxTol == 3
MaxInstruments == 2
MaxBad == 1
MaxPeaks == 2

(***************************************************************************)
(* Python values: None, int, '', a string that is no number, the floats    *)
(* nan and inf, and a list.                                                *)
(***************************************************************************)
None == [kind |-> "none", val |-> 0]
EmptyStr == [kind |-> "empty", val |-> 0]
Text == [kind |-> "text", val |-> 0]
NaN == [kind |-> "nan", val |-> 0]
Inf == [kind |-> "inf", val |-> 0]
List == [kind |-> "list", val |-> 0]
PyInt(n) == [kind |-> "int", val |-> n]

\* an exception that leaves a function whose result is a pair
RaisedPair(error) == <<[kind |-> error, val |-> 0], [kind |-> error, val |-> 0]>>

Abs(x) == IF x < 0 THEN -x ELSE x
Max(a, b) == IF a >= b THEN a ELSE b
Min(a, b) == IF a <= b THEN a ELSE b

(***************************************************************************)
(* The reference tables of the three programs.                             *)
(***************************************************************************)
TABLE_CYCLES_CAR ==
    << 179, 183, 189, 196, 202, 206, 220, 237,
       243, 250, 260, 268, 273, 291, 308, 314,
       322, 331, 345, 355, 362, 368, 385, 403,
       408, 416, 426, 439, 457, 470, 480, 487,
       493, 510, 528, 534, 541, 551, 564, 582,
       605, 622, 636, 645, 653, 659, 676 >>

TABLE_CYCLES_PSD ==
    << 179, 183, 189, 196, 202, 206, 220, 237,
       243, 250, 260, 268, 273, 291, 308, 314,
       322, 331, 345, 355, 362, 368, 385, 403,
       408, 416, 426, 439, 457, 470, 480, 487,
       493, 510, 528, 534, 541, 551, 564, 582,
       605, 622, 636, 645, 653, 659, 676, 694,
       699, 707, 717, 730, 747 >>

TABLE_CYCLES_PACF ==
    << 179, 183, 189, 196, 202, 206, 220, 237,
       243, 250, 260, 268, 273, 291, 308, 314,
       322, 331, 345, 355, 362, 368, 385, 403,
       408, 416, 426, 439, 457, 470, 480, 487,
       493, 510, 528, 534, 541, 551, 564, 582,
       605, 622, 636, 645, 653, 659, 676 >>

MIN_PERIOD == 175
MAX_PERIOD == 680

(***************************************************************************)
(* A for loop over seq[lo..hi] that carries the state st: Step(st, x) is   *)
(* one iteration.  The iterations run in order; the range is split in      *)
(* halves, and the state after the first half is compared with the state   *)
(* before it so that TLC computes it before it goes on, which only keeps   *)
(* the evaluation shallow.                                                 *)
(***************************************************************************)
RECURSIVE ForLoop(_, _, _, _, _)
ForLoop(Step(_, _), st, seq, lo, hi) ==
    IF lo > hi THEN st
    ELSE IF lo = hi THEN Step(st, seq[lo])
    ELSE LET mid == (lo + hi) \div 2
             left == ForLoop(Step, st, seq, lo, mid)
         IN IF left = st THEN ForLoop(Step, st, seq, mid + 1, hi)
            ELSE ForLoop(Step, left, seq, mid + 1, hi)

(***************************************************************************)
(* min(cycle_table, key=lambda x: abs(x - period_int)): a left-to-right    *)
(* scan that replaces the best element only by one whose key is strictly   *)
(* smaller.                                                                *)
(***************************************************************************)
\* a scan that also replaces the best element by an equally near one
KeepLastNearest(best, x, period_int) ==
    IF Abs(x - period_int) <= Abs(best - period_int) THEN x ELSE best

KeepFirstNearest(best, x, period_int) ==
    IF Abs(x - period_int) < Abs(best - period_int) THEN x ELSE best

PyMinByDistance(cycle_table, period_int) ==
    ForLoop(LAMBDA best, x : KeepFirstNearest(best, x, period_int),
            cycle_table[1], cycle_table, 2, Len(cycle_table))

\* the exception int(v) raises for a value that is no int
IntError(v) ==
    CASE v.kind \in {"text", "nan"} -> "ValueError"
      [] v.kind = "inf" -> "OverflowError"
      [] OTHER -> "TypeError"

\* a function without the except clause
ExceptNothing(error) == RaisedPair(error)

\* except (ValueError, TypeError): return None, None
Except(error) ==
    IF error \in {"ValueError", "TypeError"} THEN <<None, None>>
    ELSE RaisedPair(error)

\* compute_match_psd.py find_closest_cycle. int() of an int is the int itself;
\* int() of a value that is no number raises, and min() of an empty table
\* raises ValueError.
find_closest_cycle_psd(period, cycle_table) ==
    IF period = None \/ period = EmptyStr THEN <<None, None>>
    ELSE IF period.kind # "int" THEN Except(IntError(period))
    ELSE IF Len(cycle_table) = 0 THEN Except("ValueError")
    ELSE LET period_int == period.val
             closest == PyMinByDistance(cycle_table, period_int)
             delta == Abs(period_int - closest)
         IN <<PyInt(closest), PyInt(delta)>>

\* compute_match_pacf.py find_closest_cycle (the same code, on a lag).
find_closest_cycle_pacf(lag, cycle_table) ==
    IF lag = None \/ lag = EmptyStr THEN <<None, None>>
    ELSE IF lag.kind # "int" THEN Except(IntError(lag))
    ELSE IF Len(cycle_table) = 0 THEN Except("ValueError")
    ELSE LET lag_int == lag.val
             closest == PyMinByDistance(cycle_table, lag_int)
             delta == Abs(lag_int - closest)
         IN <<PyInt(closest), PyInt(delta)>>

(***************************************************************************)
(* CAR.py calculate_car.  A cell of a delta column is a number, NaN (a     *)
(* null) or a string that is no number.  Ratios are kept exact, as         *)
(* [num, den] with den > 0, where the code computes floats.                *)
(***************************************************************************)
Num(d) == [kind |-> "num", val |-> d]

Ratio(n, d) == [num |-> n, den |-> d]
RatioLeq(a, b) ==
    IF a.den = b.den THEN a.num <= b.num ELSE a.num * b.den <= b.num * a.den

\* pd.to_numeric(column, errors='ignore') leaves the cells as they are
to_numeric_ignore(cell) == cell

\* pd.to_numeric(column, errors='coerce'), cell by cell
to_numeric(cell) == IF cell.kind = "num" THEN cell ELSE NaN

CoerceDeltas(df) ==
    [i \in 1..Len(df) |->
        [Cycle1_Delta |-> to_numeric(df[i].Cycle1_Delta),
         Cycle2_Delta |-> to_numeric(df[i].Cycle2_Delta)]]

\* dropna(subset=['Cycle1_Delta', 'Cycle2_Delta'], how='any') would drop a row
\* with one null delta
BothOrEitherNull(row) == row.Cycle1_Delta = NaN \/ row.Cycle2_Delta = NaN

\* the rows dropna(..., how='all') removes
BothNull(row) == row.Cycle1_Delta = NaN /\ row.Cycle2_Delta = NaN

RECURSIVE DropNa(_)
DropNa(df) ==
    IF df = <<>> THEN <<>>
    ELSE IF BothNull(Head(df)) THEN DropNa(Tail(df))
    ELSE <<Head(df)>> \o DropNa(Tail(df))

\* a delta that counts only when it equals the tolerance
EqualsTol(cell, tolerance) == cell.kind = "num" /\ cell.val = tolerance

\* a comparison with NaN is False
LeqTol(cell, tolerance) == cell.kind = "num" /\ cell.val <= tolerance

\* the lambda that ignores Cycle2_Delta
RowCoveredFirstOnly(row, tolerance) == LeqTol(row.Cycle1_Delta, tolerance)

\* the lambda of results_df.apply
RowCovered(row, tolerance) ==
    \/ LeqTol(row.Cycle1_Delta, tolerance)
    \/ (row.Cycle2_Delta # NaN /\ LeqTol(row.Cycle2_Delta, tolerance))

RECURSIVE SumCovered(_, _)
SumCovered(df, tolerance) ==
    IF df = <<>> THEN 0
    ELSE (IF RowCovered(Head(df), tolerance) THEN 1 ELSE 0)
         + SumCovered(Tail(df), tolerance)

\* intervals.append((low, high)) for c in TABLE_CYCLES
ToleranceIntervals(table, tolerance) ==
    [i \in 1..Len(table) |->
        <<Max(MIN_PERIOD, table[i] - tolerance), Min(MAX_PERIOD, table[i] + tolerance)>>]

\* tuple order of Python: by first component, then by second
TupleLeq(a, b) == a[1] < b[1] \/ (a[1] = b[1] /\ a[2] <= b[2])

\* x put into a sorted list, after the elements smaller than it
InsertSorted(x, sorted) ==
    LET k == Cardinality({j \in 1..Len(sorted) : ~TupleLeq(x, sorted[j])})
    IN SubSeq(sorted, 1, k) \o <<x>> \o SubSeq(sorted, k + 1, Len(sorted))

\* a merge over the intervals in table order
Unsorted(ivs) == ivs

\* intervals.sort()
SortIntervals(ivs) ==
    ForLoop(LAMBDA sorted, x : InsertSorted(x, sorted), <<>>, ivs, 1, Len(ivs))

\* the test that merges only intervals that overlap
OverlapsOnly(s, end) == s <= end

\* if s <= end + 1
OverlapsOrAdjacent(s, end) == s <= end + 1

\* one iteration of the loop over intervals[1:]
MergeStep(st, iv) ==
    IF OverlapsOrAdjacent(iv[1], st.end)
    THEN [st EXCEPT !.end = Max(st.end, iv[2])]
    ELSE [start |-> iv[1], end |-> iv[2],
          merged |-> Append(st.merged, <<st.start, st.end>>)]

\* if intervals: start, end = intervals[0]; the loop; merged.append((start, end))
MergeIntervals(ivs) ==
    IF ivs = <<>> THEN <<>>
    ELSE LET st == ForLoop(MergeStep,
                           [start |-> ivs[1][1], end |-> ivs[1][2], merged |-> <<>>],
                           ivs, 2, Len(ivs))
         IN Append(st.merged, <<st.start, st.end>>)

\* sum(e - s + 1 for s, e in merged)
SumDays(merged) ==
    ForLoop(LAMBDA total, iv : total + (iv[2] - iv[1] + 1), 0, merged, 1, Len(merged))

\* p_at_least_one without the leading "1 -": (1 - p)**2
AtLeastOneComplement(p) ==
    Ratio((p.den - p.num) * (p.den - p.num), p.den * p.den)

\* min(1.0, 1 - (1 - p_single_match)**2), over the denominator den^2
AtLeastOne(p) ==
    LET d2 == p.den * p.den
        n == d2 - (p.den - p.num) * (p.den - p.num)
    IN Ratio(Min(d2, n), d2)

\* scipy.stats.binomtest(k, n, p) validates its arguments before it computes:
\* n must be an integer >= 1, k an integer with 0 <= k <= n, and 0 <= p <= 1.
BinomtestRaises(k, n, p) ==
    k < 0 \/ n < 1 \/ k > n \/ p.num < 0 \/ p.num > p.den

Sign(x) == IF x > 0 THEN 1 ELSE IF x < 0 THEN -1 ELSE 0

\* The values of calculate_car's locals when it returns or raises.
CarLocals(df, method, tolerance, table) ==
    LET kept == DropNa(CoerceDeltas(df))
        covered == SumCovered(kept, tolerance)
        n_processed == Len(kept)
        car == IF n_processed > 0 THEN Ratio(covered, n_processed)
               ELSE Ratio(0, 1)
        intervals == SortIntervals(ToleranceIntervals(table, tolerance))
        merged == MergeIntervals(intervals)
        total_covered_days == SumDays(merged)
        coverage_range == MAX_PERIOD - MIN_PERIOD + 1
        p_single_match == Ratio(total_covered_days, coverage_range)
        p_at_least_one == AtLeastOne(p_single_match)
    IN [given |-> df, method |-> method, kept |-> kept, covered |-> covered,
        processed_count |-> n_processed, car |-> car,
        intervals |-> intervals, merged |-> merged,
        total_covered_days |-> total_covered_days,
        p_single_match |-> p_single_match,
        p_at_least_one |-> p_at_least_one]

Raised(error) == [raised |-> TRUE, error |-> error]

\* What calculate_car returns, from its locals; the p-value, a float the
\* binomial test computes, is left out. std_dev > 0 exactly when each factor
\* of processed_count * p * (1 - p) is positive; z_score is kept by its sign.
CarReturn(l) ==
    IF BinomtestRaises(l.covered, l.processed_count, l.p_at_least_one)
    THEN Raised("ValueError")
    ELSE LET N == l.p_at_least_one.num
             D == l.p_at_least_one.den
             std_dev_positive == l.processed_count > 0 /\ N > 0 /\ D - N > 0
         IN [raised |-> FALSE,
             method |-> l.method,
             car |-> l.car,
             covered |-> l.covered,
             processed |-> l.processed_count,
             z_sign |-> IF std_dev_positive
                        THEN Sign(l.covered * D - l.processed_count * N)
                        ELSE 0,
             excess_coverage |-> Ratio(l.car.num * D - N * l.car.den, l.car.den * D),
             expected_random |-> Ratio(l.processed_count * N, D),
             p_random_per_cycle |-> l.p_single_match,
             p_at_least_one_match |-> l.p_at_least_one]

(***************************************************************************)
(* compute_match_psd.py: configuration and find_dominant_cycles.  A peak   *)
(* is [period2, power]: period2 is twice the period of its bin (periods    *)
(* are kept in half days so that rounding shows), power an integer.        *)
(***************************************************************************)
valid_classes == {"eq", "ix", "cr", "co", "fx"}

THRESHOLD_PER_CLASS ==
    [c \in valid_classes |-> IF c = "eq" THEN 30 ELSE 60]

PERIOD_RANGES ==
    [c \in valid_classes |->
        CASE c = "co" -> <<249, 511>>
          [] c = "ix" -> <<342, 718>>
          [] OTHER -> <<179, 511>>]

\* sys.argv[1].lower()
Lower(s) ==
    CASE s = "EQ" -> "eq" [] s = "IX" -> "ix" [] s = "CR" -> "cr"
      [] s = "CO" -> "co" [] s = "FX" -> "fx" [] OTHER -> s

\* int(round(period)): Python rounds a half to the even neighbour
RoundHalfEven(period2) ==
    IF period2 % 2 = 0 THEN period2 \div 2
    ELSE LET lo == (period2 - 1) \div 2 IN IF lo % 2 = 0 THEN lo ELSE lo + 1

\* peaks_df.sort_values('power', ascending=False): x goes after the peaks that
\* are at least as strong
InsertByPower(x, sorted) ==
    LET k == Cardinality({j \in 1..Len(sorted) : sorted[j].power >= x.power})
    IN SubSeq(sorted, 1, k) \o <<x>> \o SubSeq(sorted, k + 1, Len(sorted))

SortByPower(peaks) ==
    ForLoop(LAMBDA sorted, x : InsertByPower(x, sorted), <<>>, peaks, 1, Len(peaks))

SumPower(peaks) ==
    ForLoop(LAMBDA total, x : total + x.power, 0, peaks, 1, Len(peaks))

\* power >= threshold * total_power, threshold in percent
ThresholdMet(power, threshold, total_power) ==
    100 * power >= threshold * total_power

\* a selection that always takes the strongest peak and adds the second when
\* the two together meet the threshold
SelectStrongestFirst(peaks, threshold) ==
    IF peaks = <<>> THEN <<>>
    ELSE LET sorted == SortByPower(peaks)
             top_10_cycles == SubSeq(sorted, 1, Min(10, Len(sorted)))
             total_power == SumPower(top_10_cycles)
         IN IF Len(top_10_cycles) >= 2
               /\ ThresholdMet(top_10_cycles[1].power + top_10_cycles[2].power,
                               threshold, total_power)
            THEN <<RoundHalfEven(top_10_cycles[1].period2),
                   RoundHalfEven(top_10_cycles[2].period2)>>
            ELSE <<RoundHalfEven(top_10_cycles[1].period2)>>

\* lines 160-195 of find_dominant_cycles, from the peaks find_peaks returned;
\* threshold is in percent
SelectDominant(peaks, threshold) ==
    IF peaks = <<>> THEN <<>>
    ELSE LET sorted == SortByPower(peaks)
             top_10_cycles == SubSeq(sorted, 1, Min(10, Len(sorted)))
             total_power == SumPower(top_10_cycles)
             n_cycles == Len(top_10_cycles)
             selected_cycles ==
                 IF n_cycles >= 2
                 THEN IF ThresholdMet(top_10_cycles[1].power + top_10_cycles[2].power,
                                      threshold, total_power)
                      THEN <<top_10_cycles[1], top_10_cycles[2]>>
                      ELSE <<>>
                 ELSE IF ThresholdMet(top_10_cycles[1].power, threshold, total_power)
                      THEN <<top_10_cycles[1]>>
                      ELSE <<>>
         IN IF total_power = 0 THEN <<>>
            ELSE [i \in 1..Len(selected_cycles) |->
                     RoundHalfEven(selected_cycles[i].period2)]

\* no period mask: every bin is kept
PeriodMaskNone(bins, min_period, max_period) == bins

\* period_mask = (periods >= min_period) & (periods <= max_period)
PeriodMask(bins, min_period, max_period) ==
    SelectSeq(bins, LAMBDA b : /\ b.period2 >= 2 * min_period
                               /\ b.period2 <= 2 * max_period)

MaxPower(bins) ==
    ForLoop(LAMBDA best, b : Max(best, b.power), 0, bins, 1, Len(bins))

\* find_peaks(x, height=0.001 * np.max(x), distance=1): a peak is a bin, or the
\* middle of a run of equal bins, with a smaller bin on either side; the first
\* and the last bin are no peaks
FindPeaks(x) ==
    LET RunEnd(i) == CHOOSE r \in i..(Len(x) - 1) :
                         /\ \A k \in i..r : x[k].power = x[i].power
                         /\ r + 1 <= Len(x) - 1 => x[r + 1].power # x[i].power
        LeftEdges == {i \in 2..(Len(x) - 1) :
                         /\ x[i - 1].power < x[i].power
                         /\ x[RunEnd(i) + 1].power < x[i].power}
        Midpoints == {(i + RunEnd(i)) \div 2 : i \in LeftEdges}
        High == {m \in Midpoints : 1000 * x[m].power >= MaxPower(x)}
    IN SelectSeq([i \in 1..Len(x) |-> [at |-> i, bin |-> x[i]]],
                 LAMBDA e : e.at \in High)

\* find_dominant_cycles on what the periodogram gave: no bin left after the
\* zero frequency, no bin in the period range, the peaks in the range, or the
\* bins themselves with the range of the asset class
find_dominant_cycles(spectrum, threshold) ==
    CASE spectrum.kind = "peaks" -> SelectDominant(spectrum.peaks, threshold)
      [] spectrum.kind = "bins" ->
             LET filtered == PeriodMask(spectrum.bins, spectrum.min_period,
                                        spectrum.max_period)
                 found == FindPeaks(filtered)
             IN IF filtered = <<>> THEN <<>>
                ELSE SelectDominant([i \in 1..Len(found) |-> found[i].bin], threshold)
      [] OTHER -> <<>>

(***************************************************************************)
(* compute_match_pacf.py: selection of the lags.  pacf_vals is a function  *)
(* from lags to values [finite, v], v in thousandths.                      *)
(***************************************************************************)
MIN_LAG == 179
MAX_LAG == 676
MIN_CYCLE_DISTANCE == 71
MIN_ROWS == 1000

\* abs(pacf_val) > CONFIDENCE_Z / np.sqrt(n), with CONFIDENCE_Z = 1.96 and
\* pacf_val in thousandths: v^2 * n > 1960^2
AboveThreshold(v, n) == v * v * n > 1960 * 1960

\* significant_lags left in lag order
AppendInLagOrder(x, sorted) == Append(sorted, x)

\* sort(key=lambda x: x[1], reverse=True) is stable: x goes after the lags
\* that are at least as significant
InsertBySignificance(x, sorted) ==
    LET k == Cardinality({j \in 1..Len(sorted) : sorted[j][2] >= x[2]})
    IN SubSeq(sorted, 1, k) \o <<x>> \o SubSeq(sorted, k + 1, Len(sorted))

\* significant_lags, in lag order, of the lags the values are given for
SignificantLags(pacf_vals, lags, n) ==
    ForLoop(LAMBDA acc, lag :
                IF lag < MIN_LAG \/ lag > MAX_LAG THEN acc
                ELSE IF ~pacf_vals[lag].finite THEN acc
                ELSE IF AboveThreshold(pacf_vals[lag].v, n)
                     THEN Append(acc, <<lag, Abs(pacf_vals[lag].v)>>)
                     ELSE acc,
            <<>>, lags, 1, Len(lags))

\* lines 171-188: the strongest lag, then the next one at least
\* MIN_CYCLE_DISTANCE away, else the second strongest
SelectTopLags(significant) ==
    LET significant_lags ==
            ForLoop(LAMBDA sorted, x : InsertBySignificance(x, sorted),
                    <<>>, significant, 1, Len(significant))
    IN IF significant_lags = <<>> THEN <<>>
       ELSE LET first == <<significant_lags[1][1]>>
                scanned ==
                    ForLoop(LAMBDA top_lags, x :
                                IF Len(top_lags) >= 2 THEN top_lags
                                ELSE IF \A i \in 1..Len(top_lags) :
                                            Abs(x[1] - top_lags[i]) >= MIN_CYCLE_DISTANCE
                                     THEN Append(top_lags, x[1])
                                     ELSE top_lags,
                            first, significant_lags, 2, Len(significant_lags))
            IN IF Len(scanned) = 1 /\ Len(significant_lags) > 1
               THEN Append(scanned, significant_lags[2][1])
               ELSE scanned

(***************************************************************************)
(* The loop body of the two extractors.  A data file is described by what  *)
(* the checks read: whether it exists, its number of rows, and how many of *)
(* its closes are non-positive and how many are NaN.  What the estimator   *)
(* (periodogram, pacf) gives for a series is an input, and a library call  *)
(* may raise.                                                              *)
(***************************************************************************)
BlankResult(blank) ==
    [Cycle1 |-> blank, Cycle1_Match |-> blank, Cycle1_Delta |-> blank,
     Cycle2 |-> blank, Cycle2_Match |-> blank, Cycle2_Delta |-> blank]

Outcome(status, message, analysed, result) ==
    [status |-> status, message |-> message, analysed |-> analysed,
     result |-> result]

\* np.any(closes <= 0): a comparison with NaN is False
AnyNonPositive(data) == data.nonpos > 0

\* a length check that lets 999 rows pass
TooFewRowsOffByOne(data) == data.rows < MIN_ROWS - 1

\* len(data) < 1000
TooFewRows(data) == data.rows < MIN_ROWS

\* closes[closes > 0]: neither the non-positive closes nor the NaN remain
ValidCloses(data) == data.rows - data.nonpos - data.nan

\* a store loop that numbers the cycles from 2: the first period goes to
\* Cycle2 and the second is left out
PsdStoreFromTwo(peak_periods) ==
    LET m1 == find_closest_cycle_psd(PyInt(peak_periods[1]), TABLE_CYCLES_PSD)
    IN IF Len(peak_periods) >= 1
       THEN [BlankResult(EmptyStr) EXCEPT !.Cycle2 = PyInt(peak_periods[1]),
                                          !.Cycle2_Match = m1[1],
                                          !.Cycle2_Delta = m1[2]]
       ELSE BlankResult(EmptyStr)

\* the for loop that stores the cycles (PSD), '' where there is none
PsdStore(peak_periods) ==
    LET m1 == find_closest_cycle_psd(PyInt(peak_periods[1]), TABLE_CYCLES_PSD)
        m2 == find_closest_cycle_psd(PyInt(peak_periods[2]), TABLE_CYCLES_PSD)
        r0 == BlankResult(EmptyStr)
        r1 == IF Len(peak_periods) >= 1
              THEN [r0 EXCEPT !.Cycle1 = PyInt(peak_periods[1]),
                              !.Cycle1_Match = m1[1], !.Cycle1_Delta = m1[2]]
              ELSE r0
    IN IF Len(peak_periods) >= 2
       THEN [r1 EXCEPT !.Cycle2 = PyInt(peak_periods[2]),
                       !.Cycle2_Match = m2[1], !.Cycle2_Delta = m2[2]]
       ELSE r1

\* a try block that takes an instrument without a cycle for a failure
PsdTryEmptyIsError(data, spectrum, raises, threshold) ==
    IF ~data.exists \/ TooFewRows(data) \/ AnyNonPositive(data) \/ raises
    THEN Outcome("ERROR", "exception", FALSE, BlankResult(EmptyStr))
    ELSE LET peak_periods == find_dominant_cycles(spectrum, threshold)
         IN IF peak_periods = <<>>
            THEN Outcome("ERROR", "No cycle detected", TRUE, BlankResult(EmptyStr))
            ELSE Outcome("SUCCESS", "", TRUE, PsdStore(peak_periods))

\* the try block of compute_match_psd.py
PsdTry(data, spectrum, raises, threshold) ==
    IF ~data.exists
    THEN Outcome("ERROR", "Data file not found", FALSE, BlankResult(EmptyStr))
    ELSE IF TooFewRows(data)
    THEN Outcome("ERROR", "Insufficient data", FALSE, BlankResult(EmptyStr))
    ELSE IF AnyNonPositive(data)
    THEN Outcome("ERROR", "Non-positive closing prices detected", FALSE,
                 BlankResult(EmptyStr))
    ELSE IF raises
    THEN Outcome("ERROR", "exception", TRUE, BlankResult(EmptyStr))
    ELSE LET \* the periodogram of a series with a NaN is NaN in every bin,
             \* and find_peaks finds no peak in it
             seen == IF data.nan > 0 THEN [kind |-> "peaks", peaks |-> <<>>]
                     ELSE spectrum
             peak_periods == find_dominant_cycles(seen, threshold)
         IN Outcome("SUCCESS", "", TRUE, PsdStore(peak_periods))

\* "Store and match PACF results", None where there is no lag
PacfStore(top_lags) ==
    LET m1 == find_closest_cycle_pacf(PyInt(top_lags[1]), TABLE_CYCLES_PACF)
        m2 == find_closest_cycle_pacf(PyInt(top_lags[2]), TABLE_CYCLES_PACF)
        r0 == BlankResult(None)
        r1 == IF Len(top_lags) >= 1
              THEN [r0 EXCEPT !.Cycle1 = PyInt(top_lags[1]),
                              !.Cycle1_Match = m1[1], !.Cycle1_Delta = m1[2]]
              ELSE r0
    IN IF Len(top_lags) > 1
       THEN [r1 EXCEPT !.Cycle2 = PyInt(top_lags[2]),
                       !.Cycle2_Match = m2[1], !.Cycle2_Delta = m2[2]]
       ELSE r1

\* a try block in which a call raises after the cycles were stored
PacfTryRaiseAfterStore(data, pacf_vals, lags, raises) ==
    IF ~data.exists \/ TooFewRows(data) \/ ValidCloses(data) < MIN_ROWS
    THEN Outcome("ERROR", "exception", FALSE, BlankResult(None))
    ELSE LET n == ValidCloses(data) - 1
             top_lags == SelectTopLags(SignificantLags(pacf_vals, lags, n))
         IN Outcome(IF raises THEN "ERROR" ELSE "SUCCESS",
                    IF raises THEN "exception" ELSE "", TRUE, PacfStore(top_lags))

\* the try block of compute_match_pacf.py; n = len(diff_series)
PacfTry(data, pacf_vals, lags, raises) ==
    IF ~data.exists
    THEN Outcome("ERROR", "Data file not found", FALSE, BlankResult(None))
    ELSE IF TooFewRows(data)
    THEN Outcome("ERROR", "Insufficient data", FALSE, BlankResult(None))
    ELSE IF ValidCloses(data) < MIN_ROWS
    THEN Outcome("ERROR", "Insufficient positive closing prices", FALSE,
                 BlankResult(None))
    ELSE IF raises
    THEN Outcome("ERROR", "exception", TRUE, BlankResult(None))
    ELSE LET n == ValidCloses(data) - 1
             top_lags == SelectTopLags(SignificantLags(pacf_vals, lags, n))
         IN Outcome("SUCCESS", "", TRUE, PacfStore(top_lags))

\* csv.writer and csv.DictWriter write None as the empty string
CsvCell(v) == IF v = None THEN EmptyStr ELSE v

CsvRow(ticker, result) ==
    [Ticker |-> ticker,
     Cycle1 |-> CsvCell(result.Cycle1),
     Cycle1_Match |-> CsvCell(result.Cycle1_Match),
     Cycle1_Delta |-> CsvCell(result.Cycle1_Delta),
     Cycle2 |-> CsvCell(result.Cycle2),
     Cycle2_Match |-> CsvCell(result.Cycle2_Match),
     Cycle2_Delta |-> CsvCell(result.Cycle2_Delta)]

\* pd.read_csv of a result file, for a delta column: an empty field is a
\* null, a field that is no number stays a string
ReadDelta(field) ==
    CASE field.kind = "int" -> Num(field.val)
      [] field = EmptyStr -> NaN
      [] OTHER -> Text

ReadCsv(rows) ==
    [i \in 1..Len(rows) |-> [Cycle1_Delta |-> ReadDelta(rows[i].Cycle1_Delta),
                             Cycle2_Delta |-> ReadDelta(rows[i].Cycle2_Delta)]]

(***************************************************************************)
(* Spec: one run of an extractor.  A file is [exists, header, rows]; an    *)
(* instrument is named by its place in the metadata file, which stands for *)
(* its ticker, category and name; a log entry keeps the asset class, the   *)
(* ticker, the status and the message (the timestamp is left out).         *)
(***************************************************************************)
NoFile == [exists |-> FALSE, header |-> FALSE, rows |-> <<>>]

HeaderOnly == [exists |-> TRUE, header |-> TRUE, rows |-> <<>>]

OldLogEntry ==
    [asset_class |-> "eq", ticker |-> 0, status |-> "SUCCESS", message |-> ""]

OldRow == CsvRow(0, PsdStore(<<250>>))

\* what is on disk when the run starts: nothing, or the files of a run before
DiskSamples ==
    {[out_dir |-> FALSE, log_file |-> NoFile, results_file |-> NoFile],
     [out_dir |-> TRUE, log_file |-> [HeaderOnly EXCEPT !.rows = <<OldLogEntry>>],
      results_file |-> NoFile],
     [out_dir |-> TRUE, log_file |-> [HeaderOnly EXCEPT !.rows = <<OldLogEntry>>],
      results_file |-> [HeaderOnly EXCEPT !.rows = <<OldRow>>]]}

ArgvSamples == {<<>>, <<"eq">>, <<"IX">>, <<"xx">>}

MetadataSamples ==
    {[exists |-> FALSE, n |-> 0]} \cup {[exists |-> TRUE, n |-> k] : k \in 0..MaxInstruments}

RowSamples == {MIN_ROWS - 1, MIN_ROWS, MIN_ROWS + 1}

DataFiles ==
    {[exists |-> FALSE, rows |-> 0, nonpos |-> 0, nan |-> 0]}
    \cup {[exists |-> TRUE, rows |-> r, nonpos |-> a, nan |-> b] :
             r \in RowSamples,
             a \in 0..MaxBad, b \in 0..MaxBad}

Period2Samples == {361, 363, 1021, 1435}

PowerSamples == {1, 4}

PeakSet(class) ==
    {[period2 |-> p, power |-> w] :
        p \in {q \in Period2Samples : /\ q >= 2 * PERIOD_RANGES[class][1]
                                      /\ q <= 2 * PERIOD_RANGES[class][2]},
        w \in PowerSamples}

\* find_peaks gives the peaks by rising frequency, that is by falling period
SpectrumSamples(class) ==
    {[kind |-> "nofreq", peaks |-> <<>>], [kind |-> "noinrange", peaks |-> <<>>]}
    \cup {[kind |-> "peaks", peaks |-> ps] :
             ps \in {qs \in UNION {[1..k -> PeakSet(class)] : k \in 0..MaxPeaks} :
                        \A i \in 1..Len(qs) - 1 : qs[i].period2 > qs[i + 1].period2}}

LagSamples == <<179, 200, 260>>

PacfValSamples ==
    {[finite |-> FALSE, v |-> 0], [finite |-> TRUE, v |-> 62],
     [finite |-> TRUE, v |-> 70], [finite |-> TRUE, v |-> -90]}

PacfSamples == [{LagSamples[i] : i \in 1..Len(LagSamples)} -> PacfValSamples]

NoCur == [ticker |-> 0, data |-> [exists |-> FALSE, rows |-> 0, nonpos |-> 0, nan |-> 0],
          outcome |-> Outcome("", "", FALSE, BlankResult(EmptyStr))]

RunInit ==
    /\ extractor \in {"psd", "pacf"}
    /\ argv \in ArgvSamples
    /\ pc = "args"
    /\ asset_class = ""
    /\ \E disk \in DiskSamples :
           /\ out_dir = disk.out_dir
           /\ log_file = disk.log_file
           /\ results_file = disk.results_file
    /\ metadata_file \in MetadataSamples
    /\ instruments = <<>>
    /\ processed_count = 0
    /\ cur = NoCur

\* an argument check that lets an unknown asset class through
ValidateArgsUnchecked ==
    /\ UNCHANGED <<matchVars, carVars, selVars, envVars>>
    /\ pc = "args"
    /\ IF Len(argv) < 1 THEN pc' = "exit" /\ UNCHANGED asset_class
       ELSE asset_class' = Lower(argv[1]) /\ pc' = "makedirs"
    /\ UNCHANGED <<extractor, argv, out_dir, log_file, results_file,
                   metadata_file, instruments, processed_count, cur>>

\* the argument check: sys.exit(1) without an asset class or with an unknown one
ValidateArgs ==
    /\ UNCHANGED <<matchVars, carVars, selVars, envVars>>
    /\ pc = "args"
    /\ IF Len(argv) < 1 THEN pc' = "exit" /\ UNCHANGED asset_class
       ELSE /\ asset_class' = Lower(argv[1])
            /\ pc' = IF asset_class' \in valid_classes THEN "makedirs" ELSE "exit"
    /\ UNCHANGED <<extractor, argv, out_dir, log_file, results_file,
                   metadata_file, instruments, processed_count, cur>>

\* os.makedirs(OUTPUT_DIR, exist_ok=True)
MakeOutputDir ==
    /\ UNCHANGED <<matchVars, carVars, selVars, envVars>>
    /\ pc = "makedirs"
    /\ out_dir' = TRUE
    /\ pc' = "init_log"
    /\ UNCHANGED <<extractor, argv, asset_class, log_file, results_file,
                   metadata_file, instruments, processed_count, cur>>

\* if not os.path.exists(log_path): write the header
InitLogFile ==
    /\ UNCHANGED <<matchVars, carVars, selVars, envVars>>
    /\ pc = "init_log"
    /\ log_file' = IF log_file.exists THEN log_file ELSE HeaderOnly
    /\ pc' = "init_results"
    /\ UNCHANGED <<extractor, argv, asset_class, out_dir, results_file,
                   metadata_file, instruments, processed_count, cur>>

\* a results file that, like the log, gets its header only when it is missing
InitResultsFileIfMissing ==
    /\ UNCHANGED <<matchVars, carVars, selVars, envVars>>
    /\ pc = "init_results"
    /\ results_file' = IF results_file.exists THEN results_file ELSE HeaderOnly
    /\ pc' = "load_metadata"
    /\ UNCHANGED <<extractor, argv, asset_class, out_dir, log_file,
                   metadata_file, instruments, processed_count, cur>>

\* open(final_output_path, 'w') and the header
InitResultsFile ==
    /\ UNCHANGED <<matchVars, carVars, selVars, envVars>>
    /\ pc = "init_results"
    /\ results_file' = HeaderOnly
    /\ pc' = "load_metadata"
    /\ UNCHANGED <<extractor, argv, asset_class, out_dir, log_file,
                   metadata_file, instruments, processed_count, cur>>

\* the metadata file read into instruments, or sys.exit(1) when it is missing;
\* processed_count = 0
LoadMetadata ==
    /\ UNCHANGED <<matchVars, carVars, selVars, envVars>>
    /\ pc = "load_metadata"
    /\ IF metadata_file.exists
       THEN /\ instruments' = [i \in 1..metadata_file.n |-> i]
            /\ pc' = IF metadata_file.n = 0 THEN "done" ELSE "try"
       ELSE /\ instruments' = instruments
            /\ pc' = "exit"
    /\ processed_count' = 0
    /\ UNCHANGED <<extractor, argv, asset_class, out_dir, log_file, results_file,
                   metadata_file, cur>>

\* the loop body up to the end of its try statement, for the next instrument
TryOutcomes(data) ==
    LET no_spectrum == [kind |-> "nofreq", peaks |-> <<>>]
        no_pacf == [lag \in {LagSamples[i] : i \in 1..Len(LagSamples)} |->
                       [finite |-> FALSE, v |-> 0]]
        probe == IF extractor = "psd"
                 THEN PsdTry(data, no_spectrum, FALSE, THRESHOLD_PER_CLASS[asset_class])
                 ELSE PacfTry(data, no_pacf, LagSamples, FALSE)
    IN \* what the estimator gives is an input only where it is called
       IF ~probe.analysed
       THEN {probe}
       ELSE IF extractor = "psd"
       THEN {PsdTry(data, spectrum, raises, THRESHOLD_PER_CLASS[asset_class]) :
                spectrum \in SpectrumSamples(asset_class), raises \in BOOLEAN}
       ELSE {PacfTry(data, pacf_vals, LagSamples, raises) :
                pacf_vals \in PacfSamples, raises \in BOOLEAN}

TryInstrument ==
    /\ UNCHANGED <<matchVars, carVars, selVars, envVars>>
    /\ pc = "try"
    /\ \E data \in DataFiles :
           \E outcome \in TryOutcomes(data) :
               cur' = [ticker |-> instruments[processed_count + 1],
                       data |-> data, outcome |-> outcome]
    /\ pc' = "log"
    /\ UNCHANGED <<extractor, argv, asset_class, out_dir, log_file, results_file,
                   metadata_file, instruments, processed_count>>

\* log_entry(...): the log is opened for appending
LogEntry ==
    /\ UNCHANGED <<matchVars, carVars, selVars, envVars>>
    /\ pc = "log"
    /\ log_file' = [exists |-> TRUE, header |-> log_file.header,
                    rows |-> Append(log_file.rows,
                                    [asset_class |-> asset_class,
                                     ticker |-> cur.ticker,
                                     status |-> cur.outcome.status,
                                     message |-> cur.outcome.message])]
    /\ pc' = "write"
    /\ UNCHANGED <<extractor, argv, asset_class, out_dir, results_file,
                   metadata_file, instruments, processed_count, cur>>

\* the result file opened with 'w' in the loop: the row replaces the rows before
WriteResultTruncating ==
    /\ UNCHANGED <<matchVars, carVars, selVars, envVars>>
    /\ pc = "write"
    /\ results_file' = [exists |-> TRUE, header |-> FALSE,
                        rows |-> <<CsvRow(cur.ticker, cur.outcome.result)>>]
    /\ processed_count' = processed_count + 1
    /\ pc' = IF processed_count' < Len(instruments) THEN "try" ELSE "done"
    /\ cur' = NoCur
    /\ UNCHANGED <<extractor, argv, asset_class, out_dir, log_file,
                   metadata_file, instruments>>

\* the result row appended, processed_count += 1; the locals of the body are
\* set again before the next iteration reads them
WriteResult ==
    /\ UNCHANGED <<matchVars, carVars, selVars, envVars>>
    /\ pc = "write"
    /\ results_file' = [exists |-> TRUE, header |-> results_file.header,
                        rows |-> Append(results_file.rows,
                                        CsvRow(cur.ticker, cur.outcome.result))]
    /\ processed_count' = processed_count + 1
    /\ pc' = IF processed_count' < Len(instruments) THEN "try" ELSE "done"
    /\ cur' = NoCur
    /\ UNCHANGED <<extractor, argv, asset_class, out_dir, log_file,
                   metadata_file, instruments>>

RunNext ==
    \/ ValidateArgs
    \/ MakeOutputDir
    \/ InitLogFile
    \/ InitResultsFile
    \/ LoadMetadata
    \/ TryInstrument
    \/ LogEntry
    \/ WriteResult

RunIdle ==
    /\ extractor = "psd" /\ argv = <<>> /\ pc = "off" /\ asset_class = ""
    /\ out_dir = FALSE /\ log_file = NoFile /\ results_file = NoFile
    /\ metadata_file = [exists |-> FALSE, n |-> 0]
    /\ instruments = <<>> /\ processed_count = 0 /\ cur = NoCur

(***************************************************************************)
(* SpecMatch: find_closest_cycle on bounded inputs.                        *)
(***************************************************************************)
CycleSamples == {179, 183, 189, 196}

SmallTables == UNION {[1..n -> CycleSamples] : n \in 0..MaxTableLen}

MatchTables == SmallTables \cup {TABLE_CYCLES_PSD, TABLE_CYCLES_PACF}

MatchPeriods ==
    {PyInt(p) : p \in (170..200) \cup {326, 327, 690, 696, 697, 760}}
        \cup {None, EmptyStr, Text, NaN, Inf, List}

MatchInit ==
    /\ m_pc = "idle"
    /\ m_copy \in {"psd", "pacf"}
    /\ m_period \in MatchPeriods
    /\ m_table \in MatchTables
    /\ m_out = <<None, None>>

CallFindClosest ==
    /\ UNCHANGED <<carVars, runVars, selVars, envVars>>
    /\ m_pc = "idle"
    /\ m_out' = IF m_copy = "psd"
                THEN find_closest_cycle_psd(m_period, m_table)
                ELSE find_closest_cycle_pacf(m_period, m_table)
    /\ m_pc' = "returned"
    /\ UNCHANGED <<m_copy, m_period, m_table>>

MatchNext == CallFindClosest

(***************************************************************************)
(* SpecCAR: calculate_car on bounded batches and tables.  The two halves   *)
(* of the function are independent (rows and tolerance; table and          *)
(* tolerance), so the inputs vary the batch under one table and the table  *)
(* under one batch.  A call may be followed by a call on the same batch    *)
(* object with the same or the next tolerance; car_prev keeps the call     *)
(* before.                                                                 *)
(***************************************************************************)
DeltaSamples == {0, 2}

Cells == {NaN, Text} \cup {Num(d) : d \in DeltaSamples}

Rows == [Cycle1_Delta : Cells, Cycle2_Delta : Cells]

Batches == UNION {[1..n -> Rows] : n \in 0..MaxRows}

CarCycleSamples == {175, 177, 180, 183, 200, 300, 680}

CarTables ==
    UNION {[1..n -> CarCycleSamples] : n \in 0..MaxTableLen} \cup {TABLE_CYCLES_CAR}

SampleTable == <<200, 300>>

SampleBatch == <<[Cycle1_Delta |-> Num(0), Cycle2_Delta |-> NaN]>>

CarInputs ==
    {<<b, SampleTable>> : b \in Batches} \cup {<<SampleBatch, t>> : t \in CarTables}

Tolerances == 0..MaxTol

Methods == {"psd", "pacf"}

NoCall == [called |-> FALSE]

CarInit ==
    /\ car_pc = "ready"
    /\ \E input \in CarInputs : results_df = input[1] /\ car_table = input[2]
    /\ car_tolerance = 0
    /\ car_locals = NoCall
    /\ car_out = NoCall
    /\ car_prev = NoCall

\* a calculate_car that keeps its count of covered rows in a module variable
\* and does not reset it
CalculateCarAccumulating ==
    \E tolerance \in Tolerances, method \in Methods :
        /\ IF car_pc = "ready" THEN TRUE
           ELSE /\ method = car_locals.method
                /\ tolerance \in {car_tolerance, car_tolerance + 1}
        /\ car_prev' = IF car_pc = "ready" THEN NoCall
                       ELSE [called |-> TRUE, tolerance |-> car_tolerance,
                             locals |-> car_locals, out |-> car_out]
        /\ car_locals' =
               [CarLocals(results_df, method, tolerance, car_table)
                   EXCEPT !.covered = @ + (IF car_pc = "ready" THEN 0
                                           ELSE car_locals.covered)]
        /\ car_out' = CarReturn(car_locals')
        /\ results_df' = CoerceDeltas(results_df)
        /\ car_tolerance' = tolerance
        /\ car_pc' = "returned"
        /\ UNCHANGED <<car_table, matchVars, runVars, selVars, envVars>>

\* calculate_car(results_df, method, tolerance): line 37 rewrites the delta
\* columns of the caller's DataFrame before anything else happens.
CalculateCar ==
    \E tolerance \in Tolerances, method \in Methods :
        /\ IF car_pc = "ready" THEN TRUE
           ELSE /\ method = car_locals.method
                /\ tolerance \in {car_tolerance, car_tolerance + 1}
        /\ car_prev' = IF car_pc = "ready" THEN NoCall
                       ELSE [called |-> TRUE, tolerance |-> car_tolerance,
                             locals |-> car_locals, out |-> car_out]
        /\ car_locals' = CarLocals(results_df, method, tolerance, car_table)
        /\ car_out' = CarReturn(car_locals')
        /\ results_df' = CoerceDeltas(results_df)
        /\ car_tolerance' = tolerance
        /\ car_pc' = "returned"
        /\ UNCHANGED <<car_table, matchVars, runVars, selVars, envVars>>

CarNext == CalculateCar

(***************************************************************************)
(* SpecMain: a run of CAR.py.  car_tolerance is the value given with -t    *)
(* (2 when it is left out); results_df is what the result files hold.      *)
(***************************************************************************)
ToleranceChoices == {1, 2, 3}

ToleranceArgs == 0..(MaxTol + 1)

MainInit ==
    /\ car_pc = "argparse"
    /\ \E input \in CarInputs : results_df = input[1] /\ car_table = input[2]
    /\ car_tolerance \in ToleranceArgs
    /\ car_locals = NoCall
    /\ car_out = NoCall
    /\ car_prev = NoCall

\* a parser without choices for --tolerance
ParseArgsAnyInt ==
    /\ car_pc = "argparse"
    /\ car_pc' = "load"
    /\ UNCHANGED <<results_df, car_table, car_tolerance, car_locals, car_out,
                   car_prev, matchVars, runVars, selVars, envVars>>

\* parser.parse_args(): a tolerance outside the choices is a usage error, and
\* the process exits with status 2
ParseArgs ==
    /\ car_pc = "argparse"
    /\ car_pc' = IF car_tolerance \in ToleranceChoices THEN "load" ELSE "usage_error"
    /\ UNCHANGED <<results_df, car_table, car_tolerance, car_locals, car_out,
                   car_prev, matchVars, runVars, selVars, envVars>>

\* load_results(args.method): FileNotFoundError when no result file is found,
\* caught by the try statement of __main__
LoadResults ==
    /\ car_pc = "load"
    /\ \E found \in BOOLEAN : car_pc' = IF found THEN "loaded" ELSE "error"
    /\ UNCHANGED <<results_df, car_table, car_tolerance, car_locals, car_out,
                   car_prev, matchVars, runVars, selVars, envVars>>

\* car_result = calculate_car(results_df, args.method, args.tolerance) and the
\* printing of it; an exception is caught and printed
MainCalculate ==
    /\ car_pc = "loaded"
    /\ \E method \in Methods :
           car_locals' = CarLocals(results_df, method, car_tolerance, car_table)
    /\ car_out' = CarReturn(car_locals')
    /\ results_df' = CoerceDeltas(results_df)
    /\ car_pc' = IF car_out'.raised THEN "error" ELSE "printed"
    /\ UNCHANGED <<car_table, car_tolerance, car_prev, matchVars, runVars, selVars, envVars>>

MainNext == ParseArgs \/ LoadResults \/ MainCalculate

(***************************************************************************)
(* SpecSelect: the selection of the cycles, find_dominant_cycles of the    *)
(* PSD extractor and lines 161-188 of the PACF extractor, on bounded       *)
(* inputs, with the outcome the loop body records for an instrument whose  *)
(* data file passes the checks and whose estimator gave that input.  n is  *)
(* len(diff_series).                                                       *)
(***************************************************************************)
\* eleven peaks, by falling period, inside every period range: the weakest
\* is the one head(10) leaves out
LongSpectrum ==
    [kind |-> "peaks",
     peaks |-> [i \in 1..11 |->
                   [period2 |-> 1000 - 20 * i,
                    power |-> CASE i = 3 -> 30 [] i = 7 -> 24
                                [] i = 11 -> 3 [] OTHER -> 4]]]

\* the defaults of the asset classes, values around the share of the two
\* strongest peaks of LongSpectrum, and values near the ends of (0, 1)
ThresholdSamples == {1, 30, 60, 62, 63, 99}

SeriesLengths == {MIN_ROWS - 1, MIN_ROWS}

\* lags below, at and above MIN_LAG, and MAX_LAG
WideLagSamples == <<178, 179, 200, 260, 676>>

\* periods of the bins, in half days and falling: two above the range
\* 179..511 days, five within it with both of its ends, and one below it
BinPeriods == <<1030, 1024, 1022, 1000, 900, 800, 358, 356>>

\* the weakest is below and the middle one at a thousandth of the strongest
BinPowers == {1, 4, 4000}

BinSpectra ==
    {[kind |-> "bins", min_period |-> PERIOD_RANGES["eq"][1],
      max_period |-> PERIOD_RANGES["eq"][2],
      bins |-> [i \in 1..Len(BinPeriods) |-> [period2 |-> BinPeriods[i], power |-> w[i]]]] :
        w \in [1..Len(BinPeriods) -> BinPowers]}

SelectInputs ==
    {[fn |-> "psd", spectrum |-> sp, threshold |-> t] :
        sp \in SpectrumSamples("eq") \cup SpectrumSamples("ix") \cup {LongSpectrum}
                  \cup BinSpectra,
        t \in ThresholdSamples}
    \cup {[fn |-> "pacf", pacf_vals |-> v, n |-> n] :
             v \in [{WideLagSamples[i] : i \in 1..Len(WideLagSamples)} -> PacfValSamples],
             n \in SeriesLengths}

\* a data file of the given number of rows, every close positive
CleanData(rows) == [exists |-> TRUE, rows |-> rows, nonpos |-> 0, nan |-> 0]

NoSelection ==
    [significant |-> <<>>, cycles |-> <<>>,
     outcome |-> Outcome("", "", FALSE, BlankResult(EmptyStr))]

SelectInit ==
    /\ s_pc = "ready"
    /\ s_in \in SelectInputs
    /\ s_out = NoSelection

\* peak_periods = find_dominant_cycles(frequencies, psd, threshold=threshold),
\* and the try block around it
CallFindDominantCycles ==
    /\ s_pc = "ready" /\ s_in.fn = "psd"
    /\ s_out' = [significant |-> <<>>,
                 cycles |-> find_dominant_cycles(s_in.spectrum, s_in.threshold),
                 outcome |-> PsdTry(CleanData(MIN_ROWS), s_in.spectrum, FALSE,
                                    s_in.threshold)]
    /\ s_pc' = "returned"
    /\ UNCHANGED <<s_in, matchVars, carVars, runVars, envVars>>

\* significant_lags and top_lags of compute_match_pacf.py, and the try block
\* around them
SelectLags ==
    /\ s_pc = "ready" /\ s_in.fn = "pacf"
    /\ LET significant == SignificantLags(s_in.pacf_vals, WideLagSamples, s_in.n)
       IN s_out' = [significant |-> significant,
                    cycles |-> SelectTopLags(significant),
                    outcome |-> PacfTry(CleanData(s_in.n + 1), s_in.pacf_vals,
                                        WideLagSamples, FALSE)]
    /\ s_pc' = "returned"
    /\ UNCHANGED <<s_in, matchVars, carVars, runVars, envVars>>

SelectNext == CallFindDominantCycles \/ SelectLags

SelIdle == s_pc = "off" /\ s_in = [fn |-> "none"] /\ s_out = NoSelection

\* the run is alone on its output directory
EnvIdle == other_results = FALSE /\ peer_pc = "off"

(***************************************************************************)
(* SpecBatch: a run of an extractor for one asset class and, beside it, a  *)
(* run of CAR.py for the extractor's method.  The result file of the       *)
(* extractor's asset class is results_file; those of the other four        *)
(* classes are on disk, complete, when other_results holds.                *)
(***************************************************************************)
\* asset_classes=['eq', 'ix', 'cr', 'co', 'fx']
DefaultClasses == <<"eq", "ix", "cr", "co", "fx">>

\* final_output_path of the extractor run
RunClass == IF Len(argv) >= 1 THEN Lower(argv[1]) ELSE ""

\* the complete result file of another asset class: one row, with a cycle
OtherResultsFile == [HeaderOnly EXCEPT !.rows = <<OldRow>>]

\* METHOD_RESULT_PATHS[method].format(asset_class=asset_class) on disk; only
\* the extractor's method has an output directory
ResultsFileOf(method, class) ==
    IF method # extractor THEN NoFile
    ELSE IF class = RunClass THEN results_file
    ELSE IF other_results THEN OtherResultsFile
    ELSE NoFile

\* load_results: the files that exist are read in the order of the classes
\* and concatenated; FileNotFoundError when there is none
load_results(method) ==
    LET found == SelectSeq(DefaultClasses,
                           LAMBDA c : ResultsFileOf(method, c).exists)
    IN IF found = <<>> THEN Raised("FileNotFoundError")
       ELSE [raised |-> FALSE,
             rows |-> ForLoop(LAMBDA all_results, c :
                                  all_results \o ResultsFileOf(method, c).rows,
                              <<>>, found, 1, Len(found))]

BatchInit ==
    /\ RunInit
    /\ RunClass \in valid_classes
    /\ other_results \in BOOLEAN
    /\ peer_pc = "off"
    /\ car_pc = "argparse"
    /\ results_df = <<>>
    /\ car_table = TABLE_CYCLES_CAR
    /\ car_tolerance = 2
    /\ car_locals = NoCall
    /\ car_out = NoCall
    /\ car_prev = NoCall

\* results_df = load_results(args.method) and
\* car_result = calculate_car(results_df, args.method, args.tolerance), with
\* the printing of the summary; an exception is caught and printed
MainLoadAndCalculate ==
    /\ car_pc = "load"
    /\ \E method \in Methods :
           LET loaded == load_results(method)
           IN IF loaded.raised
              THEN /\ car_pc' = "error"
                   /\ UNCHANGED <<results_df, car_locals, car_out>>
              ELSE /\ car_locals' = CarLocals(ReadCsv(loaded.rows), method,
                                              car_tolerance, car_table)
                   /\ car_out' = CarReturn(car_locals')
                   /\ results_df' = CoerceDeltas(ReadCsv(loaded.rows))
                   /\ car_pc' = IF car_out'.raised THEN "error" ELSE "printed"
    /\ UNCHANGED <<car_table, car_tolerance, car_prev, matchVars, runVars, selVars,
                   envVars>>

BatchNext == RunNext \/ ParseArgs \/ MainLoadAndCalculate

(***************************************************************************)
(* SpecShared: a run of an extractor and, at the same time, a run of the   *)
(* same script for another asset class (the peer).  The two share the      *)
(* output directory and the processing log; each has its own results file  *)
(* and metadata file, and those of the peer are left out.  The peer has    *)
(* one instrument.  A row is written to a file opened for appending in one *)
(* write when the file is closed, so an append is one step.                *)
(***************************************************************************)
PeerEntry ==
    [asset_class |-> "co", ticker |-> 1, status |-> "SUCCESS", message |-> ""]

SharedInit ==
    /\ RunInit
    /\ other_results = FALSE
    /\ peer_pc = "makedirs"

\* os.makedirs(OUTPUT_DIR, exist_ok=True), by the peer
PeerMakeOutputDir ==
    /\ peer_pc = "makedirs"
    /\ out_dir' = TRUE
    /\ peer_pc' = "check"
    /\ UNCHANGED <<extractor, argv, pc, asset_class, log_file, results_file,
                   metadata_file, instruments, processed_count, cur,
                   other_results, matchVars, carVars, selVars>>

\* if not os.path.exists(log_path), by the peer
PeerCheckLog ==
    /\ peer_pc = "check"
    /\ peer_pc' = IF log_file.exists THEN "loop" ELSE "create"
    /\ UNCHANGED <<runVars, other_results, matchVars, carVars, selVars>>

\* with open(log_path, 'w') and the header, by the peer: the file is emptied
PeerCreateLog ==
    /\ peer_pc = "create"
    /\ log_file' = HeaderOnly
    /\ peer_pc' = "loop"
    /\ UNCHANGED <<extractor, argv, pc, asset_class, out_dir, results_file,
                   metadata_file, instruments, processed_count, cur,
                   other_results, matchVars, carVars, selVars>>

\* log_entry(...) for the peer's instrument
PeerLogEntry ==
    /\ peer_pc = "loop"
    /\ log_file' = [exists |-> TRUE, header |-> log_file.header,
                    rows |-> Append(log_file.rows, PeerEntry)]
    /\ peer_pc' = "done"
    /\ UNCHANGED <<extractor, argv, pc, asset_class, out_dir, results_file,
                   metadata_file, instruments, processed_count, cur,
                   other_results, matchVars, carVars, selVars>>

PeerNext == PeerMakeOutputDir \/ PeerCheckLog \/ PeerCreateLog \/ PeerLogEntry

SharedNext == RunNext \/ PeerNext

(***************************************************************************)
(* Specifications.                                                         *)
(***************************************************************************)
MatchIdle ==
    /\ m_pc = "off" /\ m_copy = "psd" /\ m_period = None
    /\ m_table = <<>> /\ m_out = <<None, None>>

CarIdle ==
    /\ car_pc = "off" /\ results_df = <<>> /\ car_table = <<>>
    /\ car_tolerance = 0 /\ car_locals = NoCall /\ car_out = NoCall
    /\ car_prev = NoCall

InitMatch == MatchInit /\ CarIdle /\ RunIdle /\ SelIdle /\ EnvIdle

SpecMatch == InitMatch /\ [][MatchNext]_vars

InitCAR == CarInit /\ MatchIdle /\ RunIdle /\ SelIdle /\ EnvIdle

SpecCAR == InitCAR /\ [][CarNext]_vars

InitMain == MainInit /\ MatchIdle /\ RunIdle /\ SelIdle /\ EnvIdle

SpecMain == InitMain /\ [][MainNext]_vars

Init == RunInit /\ MatchIdle /\ CarIdle /\ SelIdle /\ EnvIdle

InitSelect == SelectInit /\ MatchIdle /\ CarIdle /\ RunIdle /\ EnvIdle

SpecSelect == InitSelect /\ [][SelectNext]_vars

InitBatch == BatchInit /\ MatchIdle /\ SelIdle

SpecBatch == InitBatch /\ [][BatchNext]_vars

InitShared == SharedInit /\ MatchIdle /\ CarIdle /\ SelIdle

SpecShared == InitShared /\ [][SharedNext]_vars

Next == RunNext

Spec == Init /\ [][Next]_vars

(***************************************************************************)
(* Claims about find_closest_cycle (SpecMatch).                            *)
(***************************************************************************)
Dist(c, p) == Abs(c - p)

\* C1: for an integer period and a non-empty table, either copy returns a
\* table entry nearest to the period with delta = |period - entry|, and of
\* equally near entries the one with the lowest table index.
C1_NearestLowestIndex ==
    (m_pc = "returned" /\ m_period.kind = "int" /\ Len(m_table) > 0) =>
        \E k \in 1..Len(m_table) :
            /\ m_out = <<PyInt(m_table[k]), PyInt(Dist(m_table[k], m_period.val))>>
            /\ \A j \in 1..Len(m_table) :
                   Dist(m_table[j], m_period.val) >= Dist(m_table[k], m_period.val)
            /\ \A j \in 1..(k - 1) :
                   Dist(m_table[j], m_period.val) > Dist(m_table[k], m_period.val)

\* a midpoint between two different entries, the later one being the smaller:
\* the earlier (lower-index) entry was returned
C1_Witness ==
    /\ m_pc = "returned" /\ m_period.kind = "int" /\ Len(m_table) = 2
    /\ m_table[1] > m_table[2]
    /\ Dist(m_table[1], m_period.val) = Dist(m_table[2], m_period.val)
    /\ m_out[1] = PyInt(m_table[1])

(***************************************************************************)
(* Claims about calculate_car (SpecCAR).                                   *)
(***************************************************************************)
Returned == car_pc = "returned"

\* C2: the merged interval list is sorted by start, each interval is
\* non-empty, and each starts at least 2 days after the one before it ends.
C2_MergedDisjointSorted ==
    Returned =>
        LET m == car_locals.merged IN
        /\ \A i \in 1..Len(m) : m[i][1] <= m[i][2]
        /\ \A i \in 1..(Len(m) - 1) :
               m[i][1] < m[i + 1][1] /\ m[i + 1][1] >= m[i][2] + 2

\* two adjacent intervals (the second starts the day after the first ends)
\* became one
C2_Witness ==
    /\ Returned /\ Len(car_table) = 2 /\ Len(car_locals.merged) = 1
    /\ \E i, j \in 1..2 :
           car_table[j] - car_tolerance = car_table[i] + car_tolerance + 1

CoveredDaySet(table, tolerance) ==
    {d \in MIN_PERIOD..MAX_PERIOD :
        \E i \in 1..Len(table) : Abs(d - table[i]) <= tolerance}

\* C3: total_covered_days is the number of distinct days of
\* [MIN_PERIOD, MAX_PERIOD] within the tolerance of some reference cycle,
\* p_single_match is that number over the size of the range, and the table
\* [200, 300] at tolerance 2 gives [198,202],[298,302] and 10 days of 506.
C3_CoveredDaysExact ==
    Returned =>
        /\ car_locals.total_covered_days
               = Cardinality(CoveredDaySet(car_table, car_tolerance))
        /\ car_locals.p_single_match
               = Ratio(car_locals.total_covered_days, MAX_PERIOD - MIN_PERIOD + 1)
        /\ (car_table = <<200, 300>> /\ car_tolerance = 2) =>
               /\ car_locals.merged = << <<198, 202>>, <<298, 302>> >>
               /\ car_locals.total_covered_days = 10
               /\ car_locals.p_single_match = Ratio(10, 506)

\* a table out of order whose intervals overlap and are clipped at the range
C3_Witness ==
    /\ Returned /\ Len(car_table) = 2 /\ car_table[1] > car_table[2]
    /\ car_table[2] - car_tolerance < MIN_PERIOD
    /\ car_table[1] - car_tolerance <= car_table[2] + car_tolerance
    /\ car_locals.total_covered_days > 0

\* C4: for one table, a call with a tolerance at least that of the call
\* before has at least its total_covered_days, p_single_match and
\* p_at_least_one; p_at_least_one is min(1, 1 - (1 - p_single_match)^2) and
\* lies in [0, 1].
C4_MonotoneInTolerance ==
    Returned =>
        LET l == car_locals
            R == MAX_PERIOD - MIN_PERIOD + 1
        IN
        /\ l.p_at_least_one.num >= 0
        /\ l.p_at_least_one.num <= l.p_at_least_one.den
        /\ l.p_at_least_one
               = Ratio(Min(R * R, R * R - (R - l.total_covered_days)
                                          * (R - l.total_covered_days)), R * R)
        /\ (car_prev.called /\ car_prev.tolerance <= car_tolerance) =>
               /\ car_prev.locals.total_covered_days <= l.total_covered_days
               /\ RatioLeq(car_prev.locals.p_single_match, l.p_single_match)
               /\ RatioLeq(car_prev.locals.p_at_least_one, l.p_at_least_one)

\* the tolerance went up by one and the coverage grew
C4_Witness ==
    /\ Returned /\ car_prev.called /\ car_prev.tolerance + 1 = car_tolerance
    /\ car_prev.locals.total_covered_days < car_locals.total_covered_days
    /\ car_prev.locals.p_at_least_one.num < car_locals.p_at_least_one.num

HasDelta(row) == row.Cycle1_Delta.kind = "num" \/ row.Cycle2_Delta.kind = "num"

\* C5: processed_count is the number of rows of the batch (its delta columns
\* made numeric) with at least one non-null delta.
C5_ProcessedCount ==
    Returned =>
        /\ car_locals.processed_count
               = Cardinality({i \in 1..Len(results_df) : HasDelta(results_df[i])})
        /\ \A i \in 1..Len(car_locals.kept) : HasDelta(car_locals.kept[i])

\* a row without deltas was removed and a row with one delta was kept
C5_Witness ==
    /\ Returned /\ car_locals.processed_count = 1
    /\ \E i, j \in 1..Len(results_df) :
           /\ ~HasDelta(results_df[i])
           /\ results_df[j].Cycle1_Delta = NaN /\ results_df[j].Cycle2_Delta # NaN

\* min(Cycle1_Delta, Cycle2_Delta) <= tolerance, a null delta being +infinity
BestDeltaWithin(row, tolerance) ==
    LET d1 == row.Cycle1_Delta
        d2 == row.Cycle2_Delta
    IN CASE d1.kind = "num" /\ d2.kind = "num" -> Min(d1.val, d2.val) <= tolerance
         [] d1.kind = "num" /\ d2.kind # "num" -> d1.val <= tolerance
         [] d1.kind # "num" /\ d2.kind = "num" -> d2.val <= tolerance
         [] OTHER -> FALSE

\* C6: covered is the number of retained rows whose best delta is within the
\* tolerance.
C6_CoveredCount ==
    Returned =>
        car_locals.covered
            = Cardinality({i \in 1..Len(car_locals.kept) :
                              BestDeltaWithin(car_locals.kept[i], car_tolerance)})

\* a row covered by its second delta alone beside a row whose only delta is
\* too large
C6_Witness ==
    /\ Returned /\ car_locals.covered = 1 /\ Len(car_locals.kept) = 2
    /\ \E i, j \in 1..2 :
           /\ car_locals.kept[i].Cycle1_Delta = NaN
           /\ car_locals.kept[i].Cycle2_Delta.val <= car_tolerance
           /\ car_locals.kept[j].Cycle2_Delta = NaN
           /\ car_locals.kept[j].Cycle1_Delta.val > car_tolerance

\* C7: with no row that has a delta, calculate_car returns a summary with
\* car = 0.0 and z_score = 0.
C7_EmptyBatchReturnsZero ==
    (Returned /\ car_locals.processed_count = 0) =>
        /\ ~car_out.raised
        /\ car_out.car = Ratio(0, 1)
        /\ car_out.z_sign = 0

(***************************************************************************)
(* Claims about an extractor run (Spec).                                   *)
(***************************************************************************)
InLoop == pc \in {"try", "log", "write", "done"}

\* the log entries of this run: those of a run before carry ticker 0
RunLog == SelectSeq(log_file.rows, LAMBDA e : e.ticker # 0)

IsPrefix(a, b) == Len(a) <= Len(b) /\ \A i \in 1..Len(a) : b[i] = a[i]

C8_State ==
    InLoop =>
        /\ results_file.exists /\ results_file.header
        /\ Len(instruments) = metadata_file.n
        /\ Len(results_file.rows) = processed_count
        /\ Len(RunLog) = IF pc = "write" THEN processed_count + 1 ELSE processed_count
        /\ \A i \in 1..Len(results_file.rows) : results_file.rows[i].Ticker = instruments[i]
        /\ \A i \in 1..Len(RunLog) : RunLog[i].ticker = instruments[i]
        /\ pc = "done" => processed_count = Len(instruments)
        /\ pc # "done" => ENABLED Next

C8_Step ==
    /\ IsPrefix(log_file.rows, log_file'.rows)
    /\ (InLoop /\ pc # "done") => IsPrefix(results_file.rows, results_file'.rows)

\* C8: in a run every instrument of the metadata list gets one log entry and
\* then one result row, in metadata order, whatever its outcome; the loop
\* stops only after the last instrument, and a row or log entry once written
\* is never changed.
C8_OneEntryThenOneRow == [](C8_State) /\ [][C8_Step]_vars

\* a run of two instruments ended: the first failed, the second has a cycle
C8_Witness ==
    /\ pc = "done" /\ Len(instruments) = 2
    /\ RunLog[1].status = "ERROR" /\ RunLog[2].status = "SUCCESS"
    /\ Len(results_file.rows) = 2
    /\ results_file.rows[2].Cycle1 # EmptyStr

NoCycles(result) ==
    \A f \in DOMAIN result : result[f] \in {None, EmptyStr}

HasBadClose(data) == data.exists /\ (data.nonpos > 0 \/ data.nan > 0)

\* C9: an instrument whose series has a non-positive or a non-finite close
\* has status ERROR and no cycles and is not analysed, in both extractors.
C9_BadCloseIsError ==
    (cur.ticker # 0 /\ HasBadClose(cur.data)) =>
        /\ cur.outcome.status = "ERROR"
        /\ NoCycles(cur.outcome.result)
        /\ ~cur.outcome.analysed

LastOf(seq) == seq[Len(seq)]

TooShort == cur.ticker # 0 /\ cur.data.exists /\ cur.data.rows < 1000

C10_State ==
    /\ TooShort =>
           /\ cur.outcome.status = "ERROR"
           /\ NoCycles(cur.outcome.result)
           /\ ~cur.outcome.analysed
    /\ (/\ cur.ticker # 0 /\ cur.data.exists /\ extractor = "pacf"
        /\ cur.data.rows - cur.data.nonpos - cur.data.nan < 1000) =>
           /\ cur.outcome.status = "ERROR"
           /\ NoCycles(cur.outcome.result)
           /\ ~cur.outcome.analysed
    /\ (/\ cur.ticker # 0 /\ cur.data.exists /\ cur.data.rows = 1000
        /\ cur.data.nonpos = 0 /\ cur.data.nan = 0) =>
           /\ cur.outcome.analysed
           /\ cur.outcome.message
                  \notin {"Insufficient data", "Insufficient positive closing prices"}

C10_Step ==
    /\ (TooShort /\ pc = "log") =>
           /\ LastOf(log_file'.rows).ticker = cur.ticker
           /\ LastOf(log_file'.rows).status = "ERROR"
    /\ (TooShort /\ pc = "write") =>
           LastOf(results_file'.rows) = CsvRow(cur.ticker, BlankResult(EmptyStr))

\* C10: an instrument with fewer than 1000 rows has status ERROR and no
\* cycles, is not passed to the estimator, and is logged and written so, and
\* so has in the PACF extractor one with fewer than 1000 positive closes; one
\* with exactly 1000 rows, all valid, passes the length checks of both
\* extractors.
C10_MinimumRows == [](C10_State) /\ [][C10_Step]_vars

\* the PACF extractor has logged a file of 999 rows as an error, after a file
\* that gave a cycle
C10_Witness ==
    /\ extractor = "pacf" /\ pc = "write" /\ Len(instruments) = 2
    /\ cur.data.exists /\ cur.data.rows = 999 /\ cur.outcome.status = "ERROR"
    /\ LastOf(log_file.rows).status = "ERROR"
    /\ Len(results_file.rows) = 1 /\ results_file.rows[1].Cycle1 # EmptyStr

ClassNames == {"eq", "ix", "cr", "co", "fx", "EQ", "IX", "CR", "CO", "FX"}

BadClass == Len(argv) = 0 \/ argv[1] \notin ClassNames

C11_State ==
    BadClass =>
        /\ pc \in {"args", "exit"}
        /\ instruments = <<>> /\ processed_count = 0 /\ cur = NoCur
        /\ pc = "args" => ENABLED Next
        /\ pc = "exit" => ~ENABLED Next

C11_Step ==
    BadClass => /\ pc' = "exit"
                /\ UNCHANGED <<out_dir, log_file, results_file>>

\* C11: a run of either extractor without an asset class, or with one that is
\* not eq, ix, cr, co or fx, ends at the argument check: the output directory,
\* the results file and the log file stay as they were and no instrument is
\* processed.
C11_BadClassExitsFirst == [](C11_State) /\ [][C11_Step]_vars

\* a run with an unknown asset class has ended, the results file of the run
\* before still on disk
C11_Witness ==
    /\ pc = "exit" /\ Len(argv) = 1 /\ BadClass
    /\ results_file.exists /\ results_file.rows = <<OldRow>>

(***************************************************************************)
(* Claims about a run of CAR.py (SpecMain).                                *)
(***************************************************************************)
OutOfRange == car_tolerance \notin {1, 2, 3}

C12_State ==
    (car_pc # "off" /\ OutOfRange) =>
        /\ car_pc \in {"argparse", "usage_error"}
        /\ car_locals = NoCall /\ car_out = NoCall
        /\ car_pc = "usage_error" => ~ENABLED MainNext

C12_Step ==
    OutOfRange => /\ car_pc' = "usage_error"
                  /\ UNCHANGED <<results_df, car_locals, car_out>>

\* C12: a run of CAR.py with a tolerance other than 1, 2 or 3 ends as a usage
\* error at the parsing of the arguments: the results are not loaded, no row
\* is processed and no summary is produced.
C12_ToleranceChoices == [](C12_State) /\ [][C12_Step]_vars

\* a run asked for tolerance 0 on a batch with rows has ended as a usage error
C12_Witness ==
    /\ car_pc = "usage_error" /\ car_tolerance = 0
    /\ Len(results_df) > 0 /\ car_out = NoCall

(***************************************************************************)
(* More claims about find_closest_cycle (SpecMatch).                       *)
(***************************************************************************)
NotANumber == m_period.kind \in {"none", "empty", "text", "nan", "list"}

C13_State ==
    (m_pc = "returned" /\ NotANumber) => m_out = <<None, None>>

C13_Step == m_table' = m_table

\* C13: for a period that is None, '', a string that is no number, nan or a
\* value of a type that int() rejects, either copy of find_closest_cycle
\* returns (None, None) and does not raise; the table is never changed.
C13_NoneForNonNumeric == [](C13_State) /\ [][C13_Step]_vars

\* the PACF copy has returned (None, None) for a string that is no number,
\* called with the real table
C13_Witness ==
    /\ m_pc = "returned" /\ m_copy = "pacf" /\ m_period = Text
    /\ m_table = TABLE_CYCLES_PACF /\ m_out = <<None, None>>

(***************************************************************************)
(* More claims about calculate_car (SpecCAR).  car_locals.given is the     *)
(* batch as it was passed to the call.                                     *)
(***************************************************************************)
Malformed(cell) == cell.kind = "text"

\* the cell with a malformed value replaced by a null
AsNull(cell) == IF Malformed(cell) THEN NaN ELSE cell

Nulled(df) ==
    [i \in 1..Len(df) |-> [Cycle1_Delta |-> AsNull(df[i].Cycle1_Delta),
                           Cycle2_Delta |-> AsNull(df[i].Cycle2_Delta)]]

\* C14: a delta that is no number counts as a null delta and raises nothing:
\* the retained rows are the rows of the batch, malformed deltas made null,
\* that have a numeric delta, and a retained row is covered exactly when a
\* numeric delta of it is within the tolerance.
C14_MalformedIsNull ==
    Returned =>
        /\ car_locals.kept = SelectSeq(Nulled(car_locals.given), HasDelta)
        /\ car_locals.processed_count
               = Cardinality({i \in 1..Len(car_locals.given) :
                                 HasDelta(car_locals.given[i])})
        /\ car_locals.covered
               = Cardinality({i \in 1..Len(car_locals.given) :
                                 BestDeltaWithin(car_locals.given[i], car_tolerance)})
        /\ car_out.raised => car_locals.processed_count = 0

\* a batch of a row with two malformed deltas and a row with a malformed and a
\* numeric delta: the first was left out, the second is covered
C14_Witness ==
    /\ Returned /\ ~car_out.raised /\ Len(car_locals.given) = 2
    /\ Malformed(car_locals.given[1].Cycle1_Delta)
    /\ Malformed(car_locals.given[1].Cycle2_Delta)
    /\ Malformed(car_locals.given[2].Cycle1_Delta)
    /\ car_locals.given[2].Cycle2_Delta = Num(0)
    /\ car_locals.processed_count = 1 /\ car_locals.covered = 1

\* C15: calculate_car leaves the batch it was given as it was.
C15_BatchUnchanged == Returned => results_df = car_locals.given

\* C16: a call with the method and the tolerance of the call before it on the
\* same batch object returns what the call before returned.
C16_SameCallSameSummary ==
    (Returned /\ car_prev.called /\ car_prev.tolerance = car_tolerance
         /\ car_prev.locals.method = car_locals.method) =>
        car_out = car_prev.out

\* the second of two calls with tolerance 1 on a batch with a covered row and
\* a malformed delta has returned the summary of the first
C16_Witness ==
    /\ Returned /\ car_prev.called /\ car_prev.tolerance = 1 /\ car_tolerance = 1
    /\ ~car_out.raised /\ car_out.covered = 1 /\ car_out.processed = 2
    /\ \E i \in 1..Len(car_prev.locals.given) :
           Malformed(car_prev.locals.given[i].Cycle1_Delta)
    /\ car_out = car_prev.out

TablePermutations(table) ==
    {[i \in 1..Len(table) |-> table[f[i]]] :
        f \in {g \in [1..Len(table) -> 1..Len(table)] :
                  \A i, j \in 1..Len(table) : g[i] = g[j] => i = j}}

Reversed(table) == [i \in 1..Len(table) |-> table[Len(table) + 1 - i]]

Reorderings(table) ==
    IF Len(table) <= MaxTableLen THEN TablePermutations(table) ELSE {Reversed(table)}

\* C17: the merged interval list and total_covered_days are those of every
\* reordering of the table (every permutation of a short table, the reversal
\* of the long one).
C17_TableOrderFree ==
    Returned =>
        \A other \in Reorderings(car_table) :
            LET merged == MergeIntervals(SortIntervals(
                              ToleranceIntervals(other, car_tolerance)))
            IN /\ merged = car_locals.merged
               /\ SumDays(merged) = car_locals.total_covered_days

\* a table of two entries, the larger first, whose intervals overlap and were
\* merged into one
C17_Witness ==
    /\ Returned /\ Len(car_table) = 2 /\ car_table[1] > car_table[2]
    /\ car_table[1] - car_table[2] <= 2 * car_tolerance
    /\ Len(car_locals.merged) = 1
    /\ car_locals.total_covered_days = car_table[1] - car_table[2] + 2 * car_tolerance + 1

(***************************************************************************)
(* Claims about the selection of the cycles (SpecSelect).                  *)
(***************************************************************************)
PsdReturned == s_pc = "returned" /\ s_in.fn = "psd"

Candidates == IF s_in.spectrum.kind = "peaks" THEN s_in.spectrum.peaks ELSE <<>>

RECURSIVE PowerOf(_)
PowerOf(indices) ==
    IF indices = {} THEN 0
    ELSE LET i == CHOOSE k \in indices : TRUE
         IN Candidates[i].power + PowerOf(indices \ {i})

\* the (at most 10) strongest candidates
Retained ==
    CHOOSE kept \in SUBSET (1..Len(Candidates)) :
        /\ Cardinality(kept) = Min(10, Len(Candidates))
        /\ \A i \in kept, j \in (1..Len(Candidates)) \ kept :
               Candidates[i].power >= Candidates[j].power

\* i is a strongest candidate and j a strongest of the others
TopTwo(i, j) ==
    /\ i # j
    /\ \A k \in 1..Len(Candidates) : Candidates[i].power >= Candidates[k].power
    /\ \A k \in (1..Len(Candidates)) \ {i} :
           Candidates[j].power >= Candidates[k].power

TopTwoMeet(i, j, threshold) ==
    100 * (Candidates[i].power + Candidates[j].power) >= threshold * PowerOf(Retained)

PeriodOf(i) == RoundHalfEven(Candidates[i].period2)

\* C18 as stated: with two candidates or more the strongest is always
\* returned, and the second strongest with it exactly when the two together
\* reach the threshold share of the retained power.
C18_StrongestAlways ==
    (PsdReturned /\ Len(Candidates) >= 2) =>
        \E i, j \in 1..Len(Candidates) :
            /\ TopTwo(i, j)
            /\ s_out.cycles = IF TopTwoMeet(i, j, s_in.threshold)
                              THEN <<PeriodOf(i), PeriodOf(j)>>
                              ELSE <<PeriodOf(i)>>

PacfReturned == s_pc = "returned" /\ s_in.fn = "pacf"

Strength(lag) == Abs(s_in.pacf_vals[lag].v)

\* the lags of MIN_LAG..MAX_LAG whose value is finite and, in absolute value,
\* above 1.96 / sqrt(n); the values are in thousandths
Significant ==
    {lag \in DOMAIN s_in.pacf_vals :
        /\ lag >= 179 /\ lag <= 676
        /\ s_in.pacf_vals[lag].finite
        /\ Strength(lag) * Strength(lag) * s_in.n > 1960 * 1960}

Strongest(lag, among) ==
    lag \in among /\ \A other \in among : Strength(lag) >= Strength(other)

FarFrom(first) == {lag \in Significant \ {first} : Abs(lag - first) >= 71}

\* C19: Cycle1 is a strongest significant lag; with two significant lags or
\* more there is a Cycle2, the strongest of the significant lags 71 days or
\* more from Cycle1 when there is one, and else the strongest of the others.
C19_PacfSelection ==
    PacfReturned =>
        LET cycles == s_out.cycles
        IN /\ Significant = {} => cycles = <<>>
           /\ Cardinality(Significant) = 1 =>
                  Len(cycles) = 1 /\ cycles[1] \in Significant
           /\ Cardinality(Significant) >= 2 =>
                  /\ Len(cycles) = 2
                  /\ Strongest(cycles[1], Significant)
                  /\ IF FarFrom(cycles[1]) # {}
                     THEN Strongest(cycles[2], FarFrom(cycles[1]))
                     ELSE Strongest(cycles[2], Significant \ {cycles[1]})
                  /\ Abs(cycles[1] - cycles[2]) < 71 => FarFrom(cycles[1]) = {}

\* three significant lags: the strongest, a stronger one 60 days from it and a
\* weaker one 81 days from it, which became Cycle2
C19_Witness ==
    /\ PacfReturned /\ Significant = {179, 200, 260}
    /\ Strength(260) > Strength(200) /\ Strength(200) > Strength(179)
    /\ s_out.cycles = <<260, 179>>

\* the bins a PSD cycle can come from, and whether a bin is in the period
\* range (peaks given as such are in the range already)
Bins ==
    CASE s_in.spectrum.kind = "bins" -> s_in.spectrum.bins
      [] s_in.spectrum.kind = "peaks" -> s_in.spectrum.peaks
      [] OTHER -> <<>>

InRange(bin) ==
    s_in.spectrum.kind = "bins" =>
        /\ bin.period2 >= 2 * s_in.spectrum.min_period
        /\ bin.period2 <= 2 * s_in.spectrum.max_period

FromBin(cycle, i) == InRange(Bins[i]) /\ cycle = RoundHalfEven(Bins[i].period2)

\* C20: the selection gives at most two cycles.  A PSD cycle is the rounded
\* period of a bin in the period range, and two PSD cycles come from two
\* bins, the first at least as strong as the second.  A PACF cycle is a lag of
\* MIN_LAG..MAX_LAG with a finite value above the significance threshold, and
\* two PACF cycles are two lags, the first at least as strong as the second.
C20_AtMostTwoOrdered ==
    /\ Len(s_out.cycles) <= 2
    /\ PsdReturned =>
           /\ \A c \in 1..Len(s_out.cycles) :
                  \E i \in 1..Len(Bins) : FromBin(s_out.cycles[c], i)
           /\ Len(s_out.cycles) = 2 =>
                  \E i, j \in 1..Len(Bins) :
                      /\ i # j
                      /\ FromBin(s_out.cycles[1], i) /\ FromBin(s_out.cycles[2], j)
                      /\ Bins[i].power >= Bins[j].power
    /\ PacfReturned =>
           /\ \A c \in 1..Len(s_out.cycles) : s_out.cycles[c] \in Significant
           /\ Len(s_out.cycles) = 2 =>
                  /\ s_out.cycles[1] # s_out.cycles[2]
                  /\ Strength(s_out.cycles[1]) >= Strength(s_out.cycles[2])

\* a peak outside the period range and two peaks inside it, the second the
\* stronger: the cycles are those of the two peaks inside, the stronger first
C20_Witness ==
    /\ PsdReturned /\ s_in.spectrum.kind = "bins"
    /\ s_in.spectrum.bins[1].power = 1 /\ s_in.spectrum.bins[2].power = 4000
    /\ s_in.spectrum.bins[3].power = 1
    /\ s_in.spectrum.bins[4].power = 4 /\ s_in.spectrum.bins[6].power = 4000
    /\ s_out.cycles = <<400, 500>>

\* the bins of the period range, in the order of the spectrum
InBand == SelectSeq(Bins, InRange)

\* x[a..b] is a run of equal bins with a smaller bin on either side, and at
\* least a thousandth of the strongest bin
IsPeakRun(x, a, b) ==
    /\ a >= 2 /\ a <= b /\ b <= Len(x) - 1
    /\ \A k \in a..b : x[k].power = x[a].power
    /\ x[a - 1].power < x[a].power /\ x[b + 1].power < x[a].power
    /\ \A k \in 1..Len(x) : 1000 * x[a].power >= x[k].power

\* no bin after the zero frequency, no bin in the period range, or no peak
\* among the bins of the range
NoCandidate ==
    CASE s_in.spectrum.kind \in {"nofreq", "noinrange"} -> TRUE
      [] s_in.spectrum.kind = "peaks" -> s_in.spectrum.peaks = <<>>
      [] s_in.spectrum.kind = "bins" ->
             \A a, b \in 1..Len(InBand) : ~IsPeakRun(InBand, a, b)

\* C21: when no bin is left after the zero frequency, or none in the period
\* range, or no peak among the bins of the range, find_dominant_cycles
\* returns [] and the instrument has status SUCCESS, an empty message and six
\* empty cycle fields.
C21_NoCycleIsSuccess ==
    (PsdReturned /\ NoCandidate) =>
        /\ s_out.cycles = <<>>
        /\ s_out.outcome.status = "SUCCESS" /\ s_out.outcome.message = ""
        /\ s_out.outcome.result = BlankResult(EmptyStr)

\* a strong peak above the period range and bins that fall steadily within it:
\* no cycle, and the instrument is a success
C21_Witness ==
    /\ PsdReturned /\ s_in.spectrum.kind = "bins"
    /\ s_in.spectrum.bins[1].power = 1 /\ s_in.spectrum.bins[2].power = 4000
    /\ s_in.spectrum.bins[3].power = 4000 /\ s_in.spectrum.bins[4].power = 4
    /\ s_in.spectrum.bins[5].power = 4 /\ s_in.spectrum.bins[6].power = 1
    /\ s_in.spectrum.bins[7].power = 1
    /\ s_out.cycles = <<>> /\ s_out.outcome.status = "SUCCESS"

(***************************************************************************)
(* Claims about the rows an extractor writes (Spec).                       *)
(***************************************************************************)
CycleFields ==
    {"Cycle1", "Cycle1_Match", "Cycle1_Delta", "Cycle2", "Cycle2_Match", "Cycle2_Delta"}

Filled(row, field) == row[field] # EmptyStr

\* the rows of this run whose log entry has status ERROR
ErrorRows ==
    {i \in 1..Len(results_file.rows) : i <= Len(RunLog) /\ RunLog[i].status = "ERROR"}

\* C22: the row of an instrument with status ERROR has six empty cycle
\* fields; read back by CAR.py it has no delta, is dropped before the count
\* and is covered at no tolerance.
C22_ErrorRowsEmpty ==
    InLoop =>
        \A i \in ErrorRows :
            LET row == results_file.rows[i]
                read == ReadCsv(<<row>>)
            IN /\ \A f \in CycleFields : ~Filled(row, f)
               /\ DropNa(CoerceDeltas(read)) = <<>>
               /\ Len(DropNa(CoerceDeltas(read))) = 0
               /\ \A t \in Tolerances :
                      /\ ~RowCovered(CoerceDeltas(read)[1], t)
                      /\ SumCovered(DropNa(CoerceDeltas(read)), t) = 0

\* a run of two instruments ended: the estimator raised for the first, the
\* second has a cycle
C22_Witness ==
    /\ pc = "done" /\ Len(instruments) = 2 /\ ErrorRows = {1}
    /\ RunLog[1].message = "exception"
    /\ Filled(results_file.rows[2], "Cycle1_Delta")

MatchField(c) == IF c = "Cycle1" THEN "Cycle1_Match" ELSE "Cycle2_Match"

DeltaField(c) == IF c = "Cycle1" THEN "Cycle1_Delta" ELSE "Cycle2_Delta"

ReferenceTable == IF extractor = "psd" THEN TABLE_CYCLES_PSD ELSE TABLE_CYCLES_PACF

\* C23: in every row of the results file Cycle2 is filled only if Cycle1 is;
\* the match and the delta of a cycle are filled exactly when the cycle is,
\* the match is an entry of the extractor's table and the delta is
\* |cycle - match|, which is not negative.
C23_RowShape ==
    InLoop =>
        \A i \in 1..Len(results_file.rows) :
            LET row == results_file.rows[i]
            IN /\ Filled(row, "Cycle2") => Filled(row, "Cycle1")
               /\ \A c \in {"Cycle1", "Cycle2"} :
                      /\ Filled(row, c) <=> Filled(row, MatchField(c))
                      /\ Filled(row, c) <=> Filled(row, DeltaField(c))
                      /\ Filled(row, c) =>
                             /\ row[c].kind = "int"
                             /\ row[MatchField(c)].kind = "int"
                             /\ \E k \in 1..Len(ReferenceTable) :
                                    ReferenceTable[k] = row[MatchField(c)].val
                             /\ row[DeltaField(c)]
                                    = PyInt(Abs(row[c].val - row[MatchField(c)].val))
                             /\ row[DeltaField(c)].val >= 0

\* a PSD run of two instruments ended: the first row has one cycle, the second
\* has two, the second of them a day from its match
C23_Witness ==
    /\ pc = "done" /\ extractor = "psd" /\ Len(results_file.rows) = 2
    /\ Filled(results_file.rows[1], "Cycle1") /\ ~Filled(results_file.rows[1], "Cycle2")
    /\ results_file.rows[2].Cycle1 = PyInt(510)
    /\ results_file.rows[2].Cycle1_Delta = PyInt(0)
    /\ results_file.rows[2].Cycle2 = PyInt(180)
    /\ results_file.rows[2].Cycle2_Match = PyInt(179)
    /\ results_file.rows[2].Cycle2_Delta = PyInt(1)

(***************************************************************************)
(* Claims about the summary of calculate_car (SpecCAR).                    *)
(***************************************************************************)
RatioEq(a, b) == a.num * b.den = b.num * a.den

\* a - b for two ratios
RatioMinus(a, b) == Ratio(a.num * b.den - b.num * a.den, a.den * b.den)

\* the summary of 10 processed instruments, 6 of them covered, with
\* p_at_least_one = 0.04
ExampleSummary ==
    CarReturn([method |-> "psd", covered |-> 6, processed_count |-> 10,
               car |-> Ratio(6, 10), p_single_match |-> Ratio(1, 50),
               p_at_least_one |-> Ratio(4, 100)])

\* C24 as stated: every batch has a summary, in which expected_random is
\* processed_count x p_at_least_one and excess_coverage is
\* car - p_at_least_one; z_score has the sign of covered - expected_random and
\* is 0 when processed_count x p_at_least_one x (1 - p_at_least_one) is 0; and
\* 6 covered of 10 with p_at_least_one = 0.04 give 0.60, 0.4 and 0.56.
C24_SummaryIdentities ==
    /\ Returned =>
           LET l == car_locals
               q == l.p_at_least_one
               variance_zero == l.processed_count = 0 \/ q.num = 0 \/ q.num = q.den
           IN /\ ~car_out.raised
              /\ car_out.expected_random = Ratio(l.processed_count * q.num, q.den)
              /\ car_out.excess_coverage = RatioMinus(car_out.car, q)
              /\ car_out.z_sign
                     = IF variance_zero THEN 0
                       ELSE Sign(l.covered * q.den - l.processed_count * q.num)
    /\ RatioEq(ExampleSummary.car, Ratio(60, 100))
    /\ RatioEq(ExampleSummary.expected_random, Ratio(4, 10))
    /\ RatioEq(ExampleSummary.excess_coverage, Ratio(56, 100))

(***************************************************************************)
(* Claims about the CAR stage beside an extractor run (SpecBatch).         *)
(***************************************************************************)
\* the extractor is between the reset of its results file and its last row
StillWriting == pc \in {"load_metadata", "try", "log", "write"}

\* the outcomes of every asset class are on disk: those of the other four
\* classes, and those of the extractor's class, from this run or, before the
\* run resets the file, from a run before
BatchComplete ==
    /\ other_results
    /\ \/ pc = "done"
       \/ pc \in {"args", "makedirs", "init_log", "init_results"} /\ results_file.exists

SummaryProduced == car_pc = "load" /\ car_pc' = "printed"

\* C25: CAR.py produces a summary only when the extraction is not writing rows
\* and the outcomes of every asset class are on disk.
C25_FullBatchBarrier ==
    [][SummaryProduced => (~StillWriting /\ BatchComplete)]_vars

(***************************************************************************)
(* Claims about two runs at the same time (SpecShared).                    *)
(***************************************************************************)
EntriesOf(class) == SelectSeq(log_file.rows, LAMBDA e : e.asset_class = class /\ e.ticker # 0)

C26_State ==
    /\ (pc = "done" /\ asset_class # "co") => Len(EntriesOf(asset_class)) = Len(instruments)
    /\ peer_pc = "done" => PeerEntry \in {log_file.rows[i] : i \in 1..Len(log_file.rows)}

C26_Step ==
    /\ IsPrefix(log_file.rows, log_file'.rows)
    /\ Len(log_file'.rows) <= Len(log_file.rows) + 1
    /\ (InLoop /\ pc # "done") => IsPrefix(results_file.rows, results_file'.rows)

\* C26: with two runs at the same time on one processing log, every log entry
\* and every result row that was written stays as it was written: a step adds
\* at most one entry and removes none, and when a run has ended its entries
\* are all in the log.
C26_AppendedIntact == [](C26_State) /\ [][C26_Step]_vars

(***************************************************************************)
(* Claims about the rows of an extractor as CAR.py counts them (Spec).     *)
(***************************************************************************)
\* the merged reference intervals of CAR.py at a tolerance
CarMerged(tolerance) ==
    MergeIntervals(SortIntervals(ToleranceIntervals(TABLE_CYCLES_CAR, tolerance)))

InsideSome(period, merged) ==
    \E k \in 1..Len(merged) : merged[k][1] <= period /\ period <= merged[k][2]

\* C27: a row of an extractor that calculate_car counts as covered at a
\* tolerance of 1, 2 or 3 has a cycle inside one of the merged intervals that
\* CAR.py builds from its own table within [MIN_PERIOD, MAX_PERIOD].
C27_CoveredInsideIntervals ==
    InLoop =>
        \A i \in 1..Len(results_file.rows), t \in {1, 2, 3} :
            LET row == results_file.rows[i]
                read == CoerceDeltas(ReadCsv(<<row>>))[1]
            IN RowCovered(read, t) =>
                   \E c \in {"Cycle1", "Cycle2"} :
                       /\ Filled(row, c)
                       /\ row[DeltaField(c)].val <= t
                       /\ InsideSome(row[c].val, CarMerged(t))

(***************************************************************************)
(* More claims about the selection of the cycles (SpecSelect).             *)
(***************************************************************************)
\* the candidate peaks: the peaks given as such, or the runs of bins of the
\* period range that are peaks
PeakRuns ==
    {r \in (1..Len(InBand)) \X (1..Len(InBand)) : IsPeakRun(InBand, r[1], r[2])}

CandidateCount ==
    CASE s_in.spectrum.kind = "peaks" -> Len(s_in.spectrum.peaks)
      [] s_in.spectrum.kind = "bins" -> Cardinality(PeakRuns)
      [] OTHER -> 0

\* C28: with a threshold between 0 and 1 and positive powers,
\* find_dominant_cycles returns one cycle exactly when there is one candidate
\* peak, which is then the cycle; with two candidates or more it returns two
\* cycles or none.
C28_OneCycleIffOnePeak ==
    (PsdReturned /\ s_in.threshold > 0 /\ s_in.threshold < 100) =>
        /\ Len(s_out.cycles) = 1 <=> CandidateCount = 1
        /\ (CandidateCount = 1 /\ s_in.spectrum.kind = "peaks") =>
               s_out.cycles = <<RoundHalfEven(s_in.spectrum.peaks[1].period2)>>
        /\ (CandidateCount = 1 /\ s_in.spectrum.kind = "bins") =>
               \E r \in PeakRuns :
                   s_out.cycles
                       = <<RoundHalfEven(InBand[(r[1] + r[2]) \div 2].period2)>>
        /\ CandidateCount >= 2 => Len(s_out.cycles) \in {0, 2}

\* one peak among the bins of the range, a thousand times weaker than the bin
\* at the end of the range: it is the cycle, at the highest threshold
C28_Witness ==
    /\ PsdReturned /\ s_in.spectrum.kind = "bins" /\ s_in.threshold = 99
    /\ s_in.spectrum.bins[3].power = 4000 /\ s_in.spectrum.bins[4].power = 1
    /\ s_in.spectrum.bins[5].power = 4 /\ s_in.spectrum.bins[6].power = 1
    /\ s_in.spectrum.bins[7].power = 1
    /\ CandidateCount = 1 /\ s_out.cycles = <<450>>

(***************************************************************************)
(* Claims about the files of an extractor run (Spec).                      *)
(***************************************************************************)
\* the run has a valid asset class and is past the reset of its results file
AfterReset ==
    \/ pc \in {"load_metadata", "try", "log", "write", "done"}
    \/ pc = "exit" /\ asset_class \in valid_classes

C29_State ==
    AfterReset =>
        /\ results_file.exists /\ results_file.header
        /\ \A i \in 1..Len(results_file.rows) : results_file.rows[i] # OldRow
        /\ pc \in {"load_metadata", "exit"} => results_file = HeaderOnly

C29_Step ==
    /\ IsPrefix(log_file.rows, log_file'.rows)
    /\ log_file.exists => log_file'.exists /\ log_file'.header = log_file.header
    /\ (~log_file.exists /\ log_file'.exists) => pc = "init_log" /\ log_file' = HeaderOnly
    /\ (pc = "init_results" /\ Len(results_file.rows) > 0) => results_file' = HeaderOnly

\* C29: a run with a valid asset class resets its results file to the header
\* before it loads the metadata, so no row of a run before is left, also when
\* the run ends at a missing metadata file; the log is never emptied: its
\* header is written only when the file is missing and its entries stay.
C29_ResultsResetLogKept == [](C29_State) /\ [][C29_Step]_vars

\* a run with a valid asset class has ended at the missing metadata file: the
\* results file holds its header alone and the log still holds the entry of
\* the run before
C29_Witness ==
    /\ pc = "exit" /\ asset_class \in valid_classes /\ ~metadata_file.exists
    /\ results_file = HeaderOnly
    /\ log_file.rows = <<OldLogEntry>>

(***************************************************************************)
(* More claims about the summary of calculate_car (SpecCAR).               *)
(***************************************************************************)
\* C30: calculate_car counts 0 <= covered <= processed <= rows of the batch,
\* so car is in [0, 1] and the excess_coverage it returns in [-1, 1]; a call
\* on the same batch with a tolerance at least that of the call before has at
\* least its covered and its car.
C30_CountsBounded ==
    Returned =>
        LET l == car_locals IN
        /\ 0 <= l.covered /\ l.covered <= l.processed_count
        /\ l.processed_count <= Len(l.given)
        /\ l.car.den > 0 /\ 0 <= l.car.num /\ l.car.num <= l.car.den
        /\ ~car_out.raised =>
               /\ car_out.covered = l.covered /\ car_out.processed = l.processed_count
               /\ car_out.car = l.car
               /\ car_out.excess_coverage.den > 0
               /\ -car_out.excess_coverage.den <= car_out.excess_coverage.num
               /\ car_out.excess_coverage.num <= car_out.excess_coverage.den
        /\ (car_prev.called /\ car_prev.tolerance <= car_tolerance) =>
               /\ car_prev.locals.covered <= l.covered
               /\ car_prev.locals.processed_count = l.processed_count
               /\ RatioLeq(car_prev.locals.car, l.car)

\* a batch of two rows, one without a delta and one with a delta of 2: the
\* call at tolerance 1 covered none of one, the call at tolerance 2 covers it
C30_Witness ==
    /\ Returned /\ ~car_out.raised /\ car_prev.called
    /\ car_prev.tolerance = 1 /\ car_tolerance = 2
    /\ Len(car_locals.given) = 2 /\ car_locals.processed_count = 1
    /\ car_prev.locals.covered = 0 /\ car_locals.covered = 1
    /\ car_prev.out.car = Ratio(0, 1) /\ car_out.car = Ratio(1, 1)

====
